---------------------------- MODULE Spec2Model ----------------------------
(***************************************************************************)
(* A model of the multi-agent ad-generation pipeline of                    *)
(* src/src/multi_agent/orchestrator.py and of the helpers it rests on      *)
(* (src/src/utils/json_utils.py, src/src/generation/*.py).                 *)
(*                                                                         *)
(* Texts are sequences of tokens.  A token is a fixed substring (a word,   *)
(* a punctuation mark, a tag opener such as "<think"); the tokens are      *)
(* chosen so that every pattern the code searches for is a sequence of     *)
(* whole tokens and no pattern can straddle a token boundary, so that the  *)
(* regular expressions and string methods of the code act on token         *)
(* sequences exactly as they act on the concatenated characters.           *)
(***************************************************************************)
EXTENDS Integers, Sequences, FiniteSets, TLC

VARIABLES
    pc,         \* position of the operation under way
    call,       \* the operation under way and its arguments
    ret,        \* what the operation has returned so far
    results,    \* generate_ad: the result dict being filled
    locals,     \* generate_ad: its local variables
    log,        \* generate_ad: stage banners, external calls, stores, writes
    faults      \* generate_ad: collaborator answers so far that were not
                \* the expected one

vars == <<pc, call, ret, results, locals, log, faults>>

\* The variables only generate_ad uses.
run == <<results, locals, log, faults>>

\* Their value while another operation is under way.
NoRun == results = <<>> /\ locals = <<>> /\ log = <<>> /\ faults = 0

(***************************************************************************)
(* Bounds of the model.                                                    *)
(***************************************************************************)
MaxCleanLen == 4        \* longest response text given to _clean_llm_response
MaxJsonLen  == 4        \* longest response text given to extract_json_from_llm_response
MaxFaults   == 1        \* most unexpected collaborator answers in a mixed run

(***************************************************************************)
(* Generic sequence helpers.                                               *)
(***************************************************************************)
\* All sequences over S of length at most n.
SeqsUpTo(S, n) == UNION {[1..k -> S] : k \in 0..n}

\* Does the token sequence pat occur in s at position i?
MatchAt(s, i, pat) ==
    /\ i >= 1
    /\ i + Len(pat) - 1 <= Len(s)
    /\ \A k \in 1..Len(pat) : s[i + k - 1] = pat[k]

\* The first position >= from at which pat occurs in s; 0 when there is none.
FirstAt(s, from, pat) ==
    LET hits == {j \in from..(Len(s) + 1) : MatchAt(s, j, pat)}
    IN  IF hits = {} THEN 0 ELSE CHOOSE j \in hits : \A h \in hits : j <= h

(***************************************************************************)
(* re.sub(OPEN .*? CLOSE, repl, s, flags=re.DOTALL): the leftmost,         *)
(* non-overlapping matches of one of the openers, a lazy run of any        *)
(* characters and the closer.  keep = TRUE replaces a match by the lazy    *)
(* run (the group \1), keep = FALSE by the empty string.  An empty closer  *)
(* makes it the removal of a literal.  (The openers used below never       *)
(* match at one position with different lengths.)                          *)
(***************************************************************************)
RECURSIVE ReSubFrom(_, _, _, _, _)
ReSubFrom(s, i, opens, close, keep) ==
    IF i > Len(s) THEN <<>>
    ELSE LET os == {o \in opens : MatchAt(s, i, o)}
             o  == CHOOSE x \in os : TRUE
             j  == IF os = {} THEN 0 ELSE FirstAt(s, i + Len(o), close)
         IN  IF j = 0
             THEN <<s[i]>> \o ReSubFrom(s, i + 1, opens, close, keep)
             ELSE (IF keep THEN SubSeq(s, i + Len(o), j - 1) ELSE <<>>)
                  \o ReSubFrom(s, j + Len(close), opens, close, keep)

ReSub(s, opens, close, keep) == ReSubFrom(s, 1, opens, close, keep)

\* str.strip(): leading and trailing whitespace removed.
Whitespace == {" "}

RECURSIVE LStrip(_)
LStrip(s) == IF s # <<>> /\ Head(s) \in Whitespace THEN LStrip(Tail(s)) ELSE s

RECURSIVE RStrip(_)
RStrip(s) ==
    IF s # <<>> /\ s[Len(s)] \in Whitespace
    THEN RStrip(SubSeq(s, 1, Len(s) - 1)) ELSE s

Strip(s) == RStrip(LStrip(s))

(***************************************************************************)
(* BaseAgent._clean_llm_response                                           *)
(***************************************************************************)
\* The markdown code fence, three backquotes (a character a TLA+ string
\* cannot hold).
Fence == "FENCE"

\* The tokens that begin with the character '<'.
LtTokens == {"<", "<think", "</think"}

\* re.sub(r'<think>.*?</think>', '', ...)
StripThinkPairs(s) == ReSub(s, {<<"<think", ">">>}, <<"</think", ">">>, FALSE)
\* re.sub(r'<think.*?>', '', ...) and re.sub(r'</think.*?>', '', ...)
StripThinkOpen(s)  == ReSub(s, {<<"<think">>}, <<">">>, FALSE)
StripThinkClose(s) == ReSub(s, {<<"</think">>}, <<">">>, FALSE)
\* re.sub(r'<.*?>', '', ...)
StripTags(s) == ReSub(s, {<<t>> : t \in LtTokens}, <<">">>, FALSE)
\* re.sub of the fenced block with the language tag json, and of any fenced
\* block, by the block's content (the group \1).
UnfenceJson(s) == ReSub(s, {<<Fence, "json">>}, <<Fence>>, TRUE)
Unfence(s)     == ReSub(s, {<<Fence>>}, <<Fence>>, TRUE)
\* re.sub(r'JSON response:', '', ...) and re.sub(r'JSON:', '', ...)
StripLabelLong(s)  == ReSub(s, {<<"JSON", " ", "response", ":">>}, <<>>, FALSE)
StripLabelShort(s) == ReSub(s, {<<"JSON", ":">>}, <<>>, FALSE)

_clean_llm_response(response) ==
    IF response = <<>> THEN <<>>
    ELSE Strip(StripLabelShort(StripLabelLong(Unfence(UnfenceJson(
            StripTags(StripThinkClose(StripThinkOpen(
                StripThinkPairs(response)))))))))

(***************************************************************************)
(* String methods on texts.                                                *)
(***************************************************************************)
\* s.split(sep) for a one-token separator: the pieces between separators.
RECURSIVE Split(_, _)
Split(s, sep) ==
    IF FirstAt(s, 1, <<sep>>) = 0 THEN <<s>>
    ELSE <<SubSeq(s, 1, FirstAt(s, 1, <<sep>>) - 1)>>
         \o Split(SubSeq(s, FirstAt(s, 1, <<sep>>) + 1, Len(s)), sep)

\* s.split(): the maximal runs without whitespace.
Words(s) == SelectSeq(Split(s, " "), LAMBDA w : w # <<>>)

\* s.replace(tok, "") for a one-token literal.
Remove(s, tok) == SelectSeq(s, LAMBDA t : t # tok)

\* The tokens that hold an upper-case letter, with their lower-case form.
LowerCase ==
    "FocusFlow" :> "focusflow" @@ "Error" :> "error" @@ "JSON" :> "json" @@
    "Productivity" :> "productivity" @@ "AskReddit" :> "askreddit" @@
    "Try" :> "try" @@ "APIError" :> "apierror" @@
    "ClientError" :> "clienterror" @@ "ValueError" :> "valueerror" @@
    "TypeError" :> "typeerror" @@
    "UnboundLocalError" :> "unboundlocalerror"

\* s.lower()
Lower(s) ==
    [i \in 1..Len(s) |->
        IF s[i] \in DOMAIN LowerCase THEN LowerCase[s[i]] ELSE s[i]]

\* The tokens that are not made of letters, digits and underscores only.
SpecialTokens ==
    {" ", ",", ":", ".", "-", "r/", "/", "'", "\"", "<", ">", "<think",
     "</think", "{", "}", "[", "]", Fence}

\* The words that occur inside a token as a proper substring, for the
\* tokens and the words the code looks for.
SubWords ==
    "parents" :> {"parent"} @@ "professionals" :> {"professional"} @@
    "techies" :> {"tech"}

\* word in s, for a word without whitespace.
Within(word, s) ==
    \E i \in 1..Len(s) :
        \/ s[i] = word
        \/ s[i] \in DOMAIN SubWords /\ word \in SubWords[s[i]]

\* s.startswith('<'), s.endswith('>'), ' ' in s, '/' in s
StartsWithLt(s) == s # <<>> /\ s[1] \in {"<", "<think", "</think"}
EndsWithGt(s)   == s # <<>> /\ s[Len(s)] = ">"
HasSpace(s)     == \E i \in 1..Len(s) : s[i] = " "
HasSlash(s)     == \E i \in 1..Len(s) : s[i] \in {"/", "r/"}

\* The number of characters of a token, and of a text.
TokLen(tok) == IF tok = Fence THEN 3 ELSE Len(tok)

RECURSIVE CharLen(_)
CharLen(s) == IF s = <<>> THEN 0 ELSE TokLen(Head(s)) + CharLen(Tail(s))

\* list(dict.fromkeys(items)): the items without repetition, in the order
\* of their first occurrence.
RECURSIVE Unique(_)
Unique(items) ==
    IF items = <<>> THEN <<>>
    ELSE <<Head(items)>>
         \o Unique(SelectSeq(Tail(items), LAMBDA x : x # Head(items)))

\* items[:n]
Take(items, n) == SubSeq(items, 1, IF Len(items) < n THEN Len(items) ELSE n)

\* [f(x) for x in items]
Map(items, f(_)) == [i \in 1..Len(items) |-> f(items[i])]

\* d.get(k, default) on a dict's key function.
Get(d, k, default) == IF k \in DOMAIN d THEN d[k] ELSE default

(***************************************************************************)
(* Python values.  Every value has the same record shape, the field t      *)
(* naming its type: None, a number, a string (a text), a list, a dict (a   *)
(* function from key names to values).                                     *)
(***************************************************************************)
EmptyDict == <<>>
PyNone    == [t |-> "none", n |-> 0, s |-> <<>>, l |-> <<>>, d |-> EmptyDict]
PyNum(n)  == [PyNone EXCEPT !.t = "num", !.n = n]
PyStr(s)  == [PyNone EXCEPT !.t = "str", !.s = s]
PyList(l) == [PyNone EXCEPT !.t = "list", !.l = l]
PyDict(d) == [PyNone EXCEPT !.t = "dict", !.d = d]

\* d[k] = v on a dict's key function.
Put(d, k, v) == [q \in (DOMAIN d) \cup {k} |-> IF q = k THEN v ELSE d[q]]

\* bool(v) of Python: None, 0 and the empty string, list and dict are false.
Truthy(v) ==
    CASE v.t = "none" -> FALSE
      [] v.t = "num"  -> v.n # 0
      [] v.t = "str"  -> v.s # <<>>
      [] v.t = "list" -> v.l # <<>>
      [] v.t = "dict" -> DOMAIN v.d # {}

\* What a call ends with: a returned value, or an exception.
Return(v) == [kind |-> "return", value |-> v, exc |-> ""]
Raise(e)  == [kind |-> "raise", value |-> PyNone, exc |-> e]

(***************************************************************************)
(* json.loads on a text.  The JSON tokens are the brackets, the comma, a   *)
(* key (a string with its colon) and a scalar (a string or a number);      *)
(* whitespace may stand between any two of them.  In the texts of the      *)
(* model two number tokens are never adjacent and a string scalar is never *)
(* followed by ":", so that the tokens of a text are its JSON tokens.      *)
(***************************************************************************)
\* The keys the texts of the model use, by token.
KeyName ==
    [tok \in {"\"k\":", "\"improved_script\":", "\"score\":",
              "\"pain_points\":", "\"language\":", "\"topics\":",
              "\"insights\":", "\"post_index\":", "\"relevance_score\":"} |->
        CASE tok = "\"k\":"               -> "k"
          [] tok = "\"improved_script\":" -> "improved_script"
          [] tok = "\"score\":"           -> "score"
          [] tok = "\"pain_points\":"     -> "pain_points"
          [] tok = "\"language\":"        -> "language"
          [] tok = "\"topics\":"          -> "topics"
          [] tok = "\"insights\":"        -> "insights"
          [] tok = "\"post_index\":"      -> "post_index"
          [] tok = "\"relevance_score\":" -> "relevance_score"]

\* The scalars the texts of the model use, by token.
ScalarValue ==
    [tok \in {"null", "\"\"", "\"s\"", "\"better\"", "0", "1", "5", "7", "9"} |->
        CASE tok = "null"       -> PyNone
          [] tok = "\"\""       -> PyStr(<<>>)
          [] tok = "\"s\""      -> PyStr(<<"s">>)
          [] tok = "\"better\"" -> PyStr(<<"better">>)
          [] tok = "0"          -> PyNum(0)
          [] tok = "1"          -> PyNum(1)
          [] tok = "5"          -> PyNum(5)
          [] tok = "7"          -> PyNum(7)
          [] tok = "9"          -> PyNum(9)]

\* A parse: ok with the value and the position after it, or a failure
\* (json.JSONDecodeError).
Parsed(v, next) == [ok |-> TRUE, val |-> v, next |-> next]
ParseFail       == [ok |-> FALSE, val |-> PyNone, next |-> 0]

RECURSIVE ParseValue(_, _)
RECURSIVE ParseItems(_, _, _)
RECURSIVE ParseMembers(_, _, _)

ParseValue(s, i) ==
    IF i > Len(s) THEN ParseFail
    ELSE IF s[i] \in DOMAIN ScalarValue THEN Parsed(ScalarValue[s[i]], i + 1)
    ELSE IF s[i] = "[" THEN
        IF i + 1 <= Len(s) /\ s[i + 1] = "]"
        THEN Parsed(PyList(<<>>), i + 2)
        ELSE ParseItems(s, i + 1, <<>>)
    ELSE IF s[i] = "{" THEN
        IF i + 1 <= Len(s) /\ s[i + 1] = "}"
        THEN Parsed(PyDict(EmptyDict), i + 2)
        ELSE ParseMembers(s, i + 1, EmptyDict)
    ELSE ParseFail

\* value ("," value)* "]"
ParseItems(s, i, acc) ==
    LET r == ParseValue(s, i)
    IN  IF ~r.ok \/ r.next > Len(s) THEN ParseFail
        ELSE IF s[r.next] = "]"
             THEN Parsed(PyList(Append(acc, r.val)), r.next + 1)
        ELSE IF s[r.next] = ","
             THEN ParseItems(s, r.next + 1, Append(acc, r.val))
        ELSE ParseFail

\* key value ("," key value)* "}"; a repeated key keeps its last value.
ParseMembers(s, i, acc) ==
    IF i > Len(s) \/ s[i] \notin DOMAIN KeyName THEN ParseFail
    ELSE LET r == ParseValue(s, i + 1)
         IN  IF ~r.ok \/ r.next > Len(s) THEN ParseFail
             ELSE IF s[r.next] = "}"
                  THEN Parsed(PyDict(Put(acc, KeyName[s[i]], r.val)), r.next + 1)
             ELSE IF s[r.next] = ","
                  THEN ParseMembers(s, r.next + 1, Put(acc, KeyName[s[i]], r.val))
             ELSE ParseFail

\* The text without its whitespace tokens.
NoSpace(s) == SelectSeq(s, LAMBDA tok : tok \notin Whitespace)

\* json.loads(text): the whole text is one JSON value, or JSONDecodeError.
JsonLoads(text) ==
    LET s == NoSpace(text)
        r == ParseValue(s, 1)
    IN  IF r.ok /\ r.next = Len(s) + 1 THEN Parsed(r.val, r.next) ELSE ParseFail

(***************************************************************************)
(* extract_json_from_llm_response                                          *)
(***************************************************************************)
\* re.findall(r'```(?:json)?\s*([\s\S]*?)\s*```', response): the contents of
\* the fenced blocks, left to right, without overlap.
RECURSIVE CodeBlocksFrom(_, _)
CodeBlocksFrom(s, i) ==
    IF i > Len(s) THEN <<>>
    ELSE IF s[i] # Fence THEN CodeBlocksFrom(s, i + 1)
    ELSE LET b == IF i + 1 <= Len(s) /\ s[i + 1] = "json" THEN i + 2 ELSE i + 1
             j == FirstAt(s, b, <<Fence>>)
         IN  IF j = 0 THEN CodeBlocksFrom(s, i + 1)
             ELSE <<Strip(SubSeq(s, b, j - 1))>> \o CodeBlocksFrom(s, j + 1)

\* re.findall of an opening bracket, a lazy run and the first closing bracket
\* after it: r'({[\s\S]*?})' and r'(\[[\s\S]*?\])'.
RECURSIVE BracketMatchesFrom(_, _, _, _)
BracketMatchesFrom(s, i, open, close) ==
    IF i > Len(s) THEN <<>>
    ELSE IF s[i] # open THEN BracketMatchesFrom(s, i + 1, open, close)
    ELSE LET j == FirstAt(s, i + 1, <<close>>)
         IN  IF j = 0 THEN BracketMatchesFrom(s, i + 1, open, close)
             ELSE <<SubSeq(s, i, j)>> \o BracketMatchesFrom(s, j + 1, open, close)

\* sorted(matches, key=len, reverse=True): longest first, equal lengths in
\* their order of appearance.
RECURSIVE SortedByLenDesc(_)
SortedByLenDesc(ms) ==
    IF ms = <<>> THEN <<>>
    ELSE LET best == CHOOSE i \in 1..Len(ms) :
                        /\ \A k \in 1..Len(ms) : CharLen(ms[k]) <= CharLen(ms[i])
                        /\ \A k \in 1..(i - 1) : CharLen(ms[k]) < CharLen(ms[i])
             rest == [k \in 1..(Len(ms) - 1) |-> IF k < best THEN ms[k] ELSE ms[k + 1]]
         IN  <<ms[best]>> \o SortedByLenDesc(rest)

\* The first candidate json.loads accepts, tried in order (the loops with
\* "except json.JSONDecodeError: continue").
\* The first of two attempts that has parsed; the second is only looked at
\* when the first has failed.
FirstOk(attempt, later) == IF attempt.ok THEN attempt ELSE later

RECURSIVE FirstLoadable(_)
FirstLoadable(cands) ==
    IF cands = <<>> THEN ParseFail
    ELSE FirstOk(JsonLoads(Head(cands)), FirstLoadable(Tail(cands)))

WholeText(response)    == JsonLoads(response)
FromCodeBlock(response) == FirstLoadable(CodeBlocksFrom(response, 1))
FromObject(response)   ==
    FirstLoadable(SortedByLenDesc(BracketMatchesFrom(response, 1, "{", "}")))
FromArray(response)    ==
    FirstLoadable(SortedByLenDesc(BracketMatchesFrom(response, 1, "[", "]")))

\* Methods 1 to 4, in the order they are tried.
FirstMethod(response) ==
    FirstOk(WholeText(response),
            FirstOk(FromCodeBlock(response),
                    FirstOk(FromObject(response), FromArray(response))))

ResultOr(found, fallback) ==
    IF found.ok THEN Return(found.val) ELSE Return(fallback)

\* A variant that forgets the caller's default when every method has failed.
extract_json_forgets_default(response, default_value) ==
    IF response = <<>> \/ Strip(response) = <<>> THEN Return(default_value)
    ELSE ResultOr(FirstMethod(response), PyNone)

extract_json_from_llm_response(response, default_value) ==
    IF response = <<>> \/ Strip(response) = <<>> THEN Return(default_value)
    ELSE ResultOr(FirstMethod(response), default_value)

(***************************************************************************)
(* The text-generation backends.  One completion call of a backend either  *)
(* fails (the client cannot be built, or the API call raises) or answers   *)
(* with a content text.                                                    *)
(***************************************************************************)
Completion(text) == [ok |-> TRUE, err |-> "", text |-> text]
ClientError      == [ok |-> FALSE, err |-> "ClientError", text |-> <<>>]
ApiError         == [ok |-> FALSE, err |-> "APIError", text |-> <<>>]

Providers == {"openai", "claude", "groq"}

\* Config.GROQ_MODELS and Config.GROQ_DEFAULT_MODEL
GROQ_MODELS == {"llama-3.3-70b-versatile", "deepseek-r1-distill-llama-70b"}
GROQ_DEFAULT_MODEL == "llama-3.3-70b-versatile"

\* The prompts of the agents, by call site, and whether the prompt holds one
\* of the trigger phrases ("Provide a JSON response", "Respond with a JSON",
\* "Format your response as a JSON", "Return a JSON").
PromptSites ==
    {"subreddits", "queries", "relevance", "insights", "synthesis",
     "copywriting", "review"}
ExpectsJson(site) == site \in {"relevance", "insights", "synthesis", "review"}

\* Config.validate_llm_config(provider): raises ValueError without the key.
KeyMissing(keys, provider) == provider \notin keys

\* openai_generator.generate_text
generate_text(keys, o) ==
    IF KeyMissing(keys, "openai") THEN Raise("ValueError")
    ELSE IF ~o.ok THEN Raise(o.err)
    ELSE Return(PyStr(Strip(o.text)))

\* claude_generator.generate_ad_script
claude_generate_ad_script(keys, o) ==
    IF KeyMissing(keys, "claude") THEN Raise("ValueError")
    ELSE IF ~o.ok THEN Raise(o.err)
    ELSE Return(PyStr(o.text))

\* The object a backend adapter returns for a JSON prompt whose answer holds
\* no payload, and the one it returns when the API call has failed.
ParseFallbackObject(content) ==
    PyDict([score |-> PyNum(7),
            strengths |-> PyList(<<PyStr(<<"Generated content needs review">>)>>),
            weaknesses |-> PyList(<<PyStr(<<"JSON parsing failed">>)>>),
            suggestions |-> PyList(<<PyStr(<<"Please review the raw content">>)>>),
            platform_specific_feedback |-> PyStr(<<"Review needed">>),
            improved_script |-> PyStr(content)])

SafeDefaultObject(err) ==
    PyDict([score |-> PyNum(5),
            strengths |-> PyList(<<PyStr(<<"Error occurred">>)>>),
            weaknesses |-> PyList(<<PyStr(<<"API error occurred">>)>>),
            suggestions |-> PyList(<<PyStr(<<"Try again or use a different model">>)>>),
            platform_specific_feedback |-> PyStr(<<"Error", ":", " ", err>>),
            improved_script |-> PyStr(<<"Error occurred during generation">>)])

\* content.replace("<think>", "").replace("</think>", "").strip()
GroqContent(text) ==
    Strip(ReSub(ReSub(text, {<<"<think", ">">>}, <<>>, FALSE),
                {<<"</think", ">">>}, <<>>, FALSE))

\* What the adapter returns for a JSON prompt: the payload if it is a true
\* value, else the fallback object around the content.
PayloadOrFallback(json_result, content) ==
    IF Truthy(json_result) THEN Return(json_result)
    ELSE Return(ParseFallbackObject(content))

GroqResult(expects_json, content) ==
    IF expects_json
    THEN PayloadOrFallback(
             extract_json_from_llm_response(content, PyNone).value, content)
    ELSE Return(PyStr(content))

\* groq_generator.generate_ad_script (stream=False).  The client is built
\* inside the try block, before expects_json is assigned, so the handler of
\* a client failure reads an unassigned local.
groq_generate_ad_script(keys, expects_json, o) ==
    IF KeyMissing(keys, "groq") THEN Raise("ValueError")
    ELSE IF ~o.ok /\ o.err = "ClientError" THEN Raise("UnboundLocalError")
    ELSE IF ~o.ok THEN
        IF expects_json THEN Return(SafeDefaultObject(o.err)) ELSE Raise(o.err)
    ELSE GroqResult(expects_json, GroqContent(o.text))

\* What the streaming branch of the Groq adapter returns for the chunks it
\* has put together and cleaned.
GroqStreamResult(expects_json, raw_content) ==
    IF expects_json
    THEN PayloadOrFallback(
             extract_json_from_llm_response(raw_content, PyNone).value,
             raw_content)
    ELSE Return(PyStr(raw_content))

\* groq_generator.generate_ad_script (stream=True): the chunks of the
\* complete text are concatenated, a chunk without content counting as "".
groq_generate_ad_script_streaming(keys, expects_json, o) ==
    IF KeyMissing(keys, "groq") THEN Raise("ValueError")
    ELSE IF ~o.ok /\ o.err = "ClientError" THEN Raise("UnboundLocalError")
    ELSE IF ~o.ok THEN
        IF expects_json THEN Return(SafeDefaultObject(o.err)) ELSE Raise(o.err)
    ELSE GroqStreamResult(expects_json, GroqContent(o.text))

(***************************************************************************)
(* BaseAgent                                                               *)
(***************************************************************************)
\* BaseAgent.__init__: the provider and model an agent ends up with
\* (model_name "" stands for None).
MakeAgent(llm_provider, model_name) ==
    IF model_name = "" THEN
        CASE llm_provider = "openai" ->
                [llm_provider |-> "openai", model_name |-> "gpt-4o"]
          [] llm_provider = "claude" ->
                [llm_provider |-> "claude",
                 model_name |-> "claude-3-5-sonnet-20240620"]
          [] llm_provider = "groq" ->
                [llm_provider |-> "groq", model_name |-> GROQ_DEFAULT_MODEL]
          [] OTHER -> [llm_provider |-> "openai", model_name |-> "gpt-4o"]
    ELSE IF llm_provider = "groq" /\ model_name \notin GROQ_MODELS
         THEN [llm_provider |-> "groq", model_name |-> GROQ_DEFAULT_MODEL]
    ELSE [llm_provider |-> llm_provider, model_name |-> model_name]

\* One call of a backend adapter, as the log of calls records it.
BackendCall(backend, model) == [kind |-> "llm", target |-> backend, arg |-> model]

\* f"Error generating response: {str(e)}"
ErrorText(e) == <<"Error", " ", "generating", " ", "response", ":", " ", e>>

\* The adapter call in the try block of generate_llm_response.
ConfiguredCall(agent, keys, site, o) ==
    CASE agent.llm_provider = "openai" -> generate_text(keys, o)
      [] agent.llm_provider = "claude" -> claude_generate_ad_script(keys, o)
      [] agent.llm_provider = "groq"   ->
            groq_generate_ad_script(keys, ExpectsJson(site), o)
      [] OTHER -> generate_text(keys, o)

ConfiguredBackend(agent) ==
    IF agent.llm_provider \in Providers
    THEN BackendCall(agent.llm_provider, agent.model_name)
    ELSE BackendCall("openai", "gpt-4o")

\* self._clean_llm_response(response) on what an adapter returned: a false
\* value gives "", a string is cleaned, any other value makes re.sub raise.
CleanReturned(v) ==
    IF ~Truthy(v) THEN Return(PyStr(<<>>))
    ELSE IF v.t = "str" THEN Return(PyStr(_clean_llm_response(v.s)))
    ELSE Raise("TypeError")

\* The try block: the adapter call and the cleaning of what it returned.
CleanIfReturned(first) ==
    IF first.kind = "return" THEN CleanReturned(first.value) ELSE first

\* The except block: the fallback call to OpenAI, and the error text naming
\* the first exception when the fallback fails too.
FallBack(exc, second) ==
    IF second.kind = "return" THEN CleanReturned(second.value).value.s
    ELSE ErrorText(exc)

\* An answer that gives the error text at once, without a fallback call.
respond_without_fallback(cleaned, second, configured) ==
    IF cleaned.kind = "return"
    THEN [text |-> cleaned.value.s, calls |-> <<configured>>]
    ELSE [text |-> ErrorText(cleaned.exc), calls |-> <<configured>>]

Respond(cleaned, second, configured) ==
    IF cleaned.kind = "return"
    THEN [text |-> cleaned.value.s, calls |-> <<configured>>]
    ELSE [text |-> FallBack(cleaned.exc, second),
          calls |-> <<configured, BackendCall("openai", "gpt-4o")>>]

\* BaseAgent.generate_llm_response: o1 is what the configured backend does,
\* o2 what the fallback backend does if it comes to be called.  The result
\* is the returned text and the adapter calls made.
generate_llm_response(agent, keys, site, o1, o2) ==
    Respond(CleanIfReturned(ConfiguredCall(agent, keys, site, o1)),
            generate_text(keys, o2), ConfiguredBackend(agent))

(***************************************************************************)
(* Cleaning a response and cleaning the cleaned text again.                *)
(***************************************************************************)
CleanAlphabet ==
    {"<think", "</think", "<", ">", Fence, "json", "JSON", " ", "response",
     ":", "x"}

InitClean ==
    /\ pc = "start"
    /\ call \in {[op |-> "_clean_llm_response", response |-> r] :
                    r \in SeqsUpTo(CleanAlphabet, MaxCleanLen)}
    /\ ret = [once |-> <<>>, twice |-> <<>>]
    /\ NoRun

CleanOnce ==
    /\ pc = "start"
    /\ call.op = "_clean_llm_response"
    /\ ret' = [ret EXCEPT !.once = _clean_llm_response(call.response)]
    /\ pc' = "cleaned"
    /\ UNCHANGED <<call, run>>

CleanAgain ==
    /\ pc = "cleaned"
    /\ call.op = "_clean_llm_response"
    /\ ret' = [ret EXCEPT !.twice = _clean_llm_response(ret.once)]
    /\ pc' = "recleaned"
    /\ UNCHANGED <<call, run>>

NextClean == CleanOnce \/ CleanAgain

SpecClean == InitClean /\ [][NextClean]_vars

\* C9: _clean_llm_response is idempotent: cleaning the cleaned text gives
\* the same text as cleaning the response once.
C9_CleanIdempotent == pc = "recleaned" => ret.twice = ret.once

(***************************************************************************)
(* Extracting a payload from a response text.                              *)
(***************************************************************************)
JsonAlphabet ==
    {"{", "}", "[", "]", "\"k\":", "\"s\"", " ", "x", Fence, "json"}

\* The defaults the callers of the model supply.
JsonDefaults == {PyNone, PyList(<<>>), PyDict([score |-> PyNum(7)])}

InitJson ==
    /\ pc = "start"
    /\ call \in {[op |-> "extract_json_from_llm_response", response |-> r,
                   default_value |-> d] :
                    r \in SeqsUpTo(JsonAlphabet, MaxJsonLen), d \in JsonDefaults}
    /\ ret = Return(PyNone)
    /\ NoRun

ExtractJson ==
    /\ pc = "start"
    /\ call.op = "extract_json_from_llm_response"
    /\ ret' = extract_json_from_llm_response(call.response, call.default_value)
    /\ pc' = "done"
    /\ UNCHANGED <<call, run>>

NextJson == ExtractJson

SpecJson == InitJson /\ [][NextJson]_vars

\* The texts the four methods hand to json.loads: the whole text, the
\* contents of the fenced blocks, the brace matches and the bracket matches.
ExtractionCandidates(response) ==
    {response}
    \cup {CodeBlocksFrom(response, 1)[i] :
            i \in 1..Len(CodeBlocksFrom(response, 1))}
    \cup {BracketMatchesFrom(response, 1, "{", "}")[i] :
            i \in 1..Len(BracketMatchesFrom(response, 1, "{", "}"))}
    \cup {BracketMatchesFrom(response, 1, "[", "]")[i] :
            i \in 1..Len(BracketMatchesFrom(response, 1, "[", "]"))}

NoPayload(response) ==
    \A c \in ExtractionCandidates(response) : ~JsonLoads(c).ok

\* C8: extract_json_from_llm_response never raises, and for a response
\* text from which no method can parse a payload (the empty and the
\* whitespace-only text included) it returns exactly the caller's default.
C8_ExtractReturnsDefault ==
    (pc = "done" /\ call.op = "extract_json_from_llm_response") =>
        /\ ret.kind = "return"
        /\ (NoPayload(call.response) => ret.value = call.default_value)
        /\ (Strip(call.response) = <<>> => ret.value = call.default_value)

\* A text with braces and brackets in it that holds no payload, returned
\* as the (non-None) default.
C8_Witness ==
    /\ pc = "done"
    /\ call.op = "extract_json_from_llm_response"
    /\ call.response = <<"x", "{", "[", "}">>
    /\ call.default_value = PyList(<<>>)
    /\ NoPayload(call.response)
    /\ ret = Return(PyList(<<>>))

(***************************************************************************)
(* ResearchAgent                                                           *)
(***************************************************************************)
\* What an agent operation ends with: the outcome, the text the model gave
\* and the adapter calls made.
Failed(exc) == [out |-> Raise(exc), response |-> <<>>, calls |-> <<>>]

Done(value, llm) == [out |-> Return(value), response |-> llm.text, calls |-> llm.calls]

\* product_info[key] raises KeyError when a key of required is missing.
MissingKey(d, required) == \E k \in required : k \notin DOMAIN d

\* The names parsed from the model's comma-separated answer: stripped,
\* lower-cased, without 'r/', and kept when longer than two characters
\* and not looking like a tag.
ParsedSubreddits(response) ==
    SelectSeq(Map(Split(response, ","),
                  LAMBDA piece : Remove(Lower(Strip(piece)), "r/")),
              LAMBDA name : /\ name # <<>>
                            /\ CharLen(name) > 2
                            /\ ~StartsWithLt(name)
                            /\ ~EndsWithGt(name))

\* [term.strip() for term in field.split(',')] when the field is not empty
StrippedTerms(field) ==
    IF field = <<>> THEN <<>> ELSE Map(Split(field, ","), Strip)

AudienceTerms(audience) ==
    (IF Within("professionals", audience) \/ Within("workers", audience)
     THEN << <<"careers">> >> ELSE <<>>)
    \o (IF Within("students", audience) THEN << <<"college">> >> ELSE <<>>)
    \o (IF Within("parents", audience) THEN << <<"parenting">> >> ELSE <<>>)
    \o (IF Within("health", audience) THEN << <<"health">> >> ELSE <<>>)

GeneralSubreddits ==
    << <<"askreddit">>, <<"advice">>, <<"tipofmytongue">>,
       <<"buyitforlife">>, <<"frugal">> >>

\* Pad with the general names when fewer than three are left, then take
\* the first five distinct names.
PadSubreddits(names) ==
    Take(Unique(IF Len(names) < 3 THEN names \o GeneralSubreddits ELSE names), 5)

\* The names generated from the product information when none was parsed.
FallbackSubreddits(product_info) ==
    PadSubreddits(
        SelectSeq(
            StrippedTerms(Lower(Get(product_info, "niche", <<>>)))
            \o StrippedTerms(Lower(Get(product_info, "keywords", <<>>)))
            \o AudienceTerms(Lower(Get(product_info, "target_audience", <<>>))),
            LAMBDA sub : /\ ~HasSpace(sub)
                         /\ CharLen(sub) > 2
                         /\ \A i \in 1..Len(sub) : sub[i] \notin SpecialTokens))

\* "if not parsed: <fallback>"
OrIfEmpty(parsed, fallback) == IF parsed # <<>> THEN parsed ELSE fallback

SubredditsFrom(llm, product_info) ==
    Done(OrIfEmpty(ParsedSubreddits(llm.text), FallbackSubreddits(product_info)),
         llm)

\* ResearchAgent.find_relevant_subreddits; the value is a sequence of texts.
find_relevant_subreddits(agent, keys, product_info, o1, o2) ==
    IF MissingKey(product_info,
                  {"product_name", "product_description", "target_audience"})
    THEN Failed("KeyError")
    ELSE SubredditsFrom(
             generate_llm_response(agent, keys, "subreddits", o1, o2),
             product_info)

\* The queries parsed from the model's comma-separated answer: stripped,
\* kept when longer than five characters, and then freed of double quotes.
ParsedQueries(response) ==
    Map(SelectSeq(Map(Split(response, ","), Strip),
                  LAMBDA q : q # <<>> /\ CharLen(q) > 5),
        LAMBDA q : Remove(q, "\""))

\* Counter(words)[w]
Count(w, words) == Cardinality({i \in 1..Len(words) : words[i] = w})

\* Counter(words).most_common(): the distinct words by falling count, equal
\* counts in the order of first occurrence.
RECURSIVE ByCountDesc(_, _)
ByCountDesc(distinct, words) ==
    IF distinct = <<>> THEN <<>>
    ELSE LET best == CHOOSE i \in 1..Len(distinct) :
                        /\ \A k \in 1..Len(distinct) :
                              Count(distinct[k], words) <= Count(distinct[i], words)
                        /\ \A k \in 1..(i - 1) :
                              Count(distinct[k], words) < Count(distinct[i], words)
         IN  <<distinct[best]>>
             \o ByCountDesc(SelectSeq(distinct, LAMBDA w : w # distinct[best]),
                            words)

\* [word for word, count in Counter(words).most_common(5) if count > 1]
CommonTerms(words) ==
    SelectSeq(Take(ByCountDesc(Unique(words), words), 5),
              LAMBDA w : Count(w, words) > 1)

TermQueries(term1, term2) ==
    << term1 \o <<" ">> \o term2 \o <<" ", "discussion">>,
       <<"best", " ">> \o term1 \o <<" ", "reviews">>,
       term2 \o <<" ", "recommendations">>,
       term1 \o <<" ", "problems", " ", "solutions">>,
       term2 \o <<" ", "vs", " ", "competitors">> >>

NameQueries(product_name) ==
    << product_name \o <<" ", "discussion">>,
       product_name \o <<" ", "reviews">>,
       product_name \o <<" ", "problems">>,
       product_name \o <<" ", "alternatives">>,
       product_name \o <<" ", "recommendations">> >>

QueriesFromTerms(common_terms, product_name) ==
    IF Len(common_terms) >= 2
    THEN TermQueries(common_terms[1], common_terms[2])
    ELSE NameQueries(product_name)

\* The queries generated from the product information when none was parsed.
FallbackQueries(product_info) ==
    QueriesFromTerms(
        CommonTerms(
            SelectSeq(
                Words(Lower(Get(product_info, "product_name", <<>>)) \o <<" ">>
                      \o Lower(Get(product_info, "product_description", <<>>))
                      \o <<" ">>
                      \o Lower(Get(product_info, "use_cases", <<>>)) \o <<" ">>
                      \o Lower(Get(product_info, "keywords", <<>>))),
                LAMBDA word : CharLen(word) > 4)),
        Lower(Get(product_info, "product_name", <<>>)))

QueriesFrom(llm, product_info) ==
    Done(OrIfEmpty(ParsedQueries(llm.text), FallbackQueries(product_info)), llm)

\* ResearchAgent.generate_search_queries; the value is a sequence of texts.
generate_search_queries(agent, keys, product_info, o1, o2) ==
    IF MissingKey(product_info,
                  {"product_name", "product_description", "target_audience"})
    THEN Failed("KeyError")
    ELSE QueriesFrom(generate_llm_response(agent, keys, "queries", o1, o2),
                     product_info)

(***************************************************************************)
(* DataCollectionAgent and the discussion source.                          *)
(*                                                                         *)
(* The source is one of a few forums.  A forum tells, for a subreddit and  *)
(* a query, which posts a search yields before it ends or raises; what     *)
(* search_subreddit keeps is the same in both cases.                       *)
(***************************************************************************)
Forums == {"down", "empty", "small", "flaky"}

FocusPost ==
    [title |-> <<"How", " ", "I", " ", "focus">>,
     selftext |-> <<"x">>,
     comments |-> << <<"this really helped me focus">>, <<"ok">>, <<>>,
                     <<"a fourth and long enough comment">> >>]

AdvicePost ==
    [title |-> <<"Need", " ", "advice">>,
     selftext |-> <<>>,
     comments |-> <<>>]

TimerPost ==
    [title |-> <<"Best", " ", "timer">>,
     selftext |-> <<"timer">>,
     comments |-> << <<"a comment of more than twenty characters">> >>]

\* The posts the search of a subreddit yields, in order, whatever the limit.
Yielded(forum, subreddit_name, query) ==
    CASE forum = "small" /\ subreddit_name = <<"productivity">> -> <<FocusPost>>
      [] forum = "small" /\ subreddit_name = <<"askreddit">> ->
            <<AdvicePost, TimerPost, FocusPost>>
      [] forum = "flaky" /\ subreddit_name = <<"askreddit">> -> <<TimerPost>>
      [] OTHER -> <<>>

\* The search of a forum raises: at once when the forum is down, after the
\* posts it has yielded when it is flaky.
SearchRaises(forum) == forum \in {"down", "flaky"}

\* The post_data built from a post: the comments kept are those among the
\* first three that are longer than twenty characters.
PostData(post) ==
    [title |-> post.title,
     selftext |-> post.selftext,
     top_comments |->
        SelectSeq(Take(post.comments, 3),
                  LAMBDA body : body # <<>> /\ CharLen(body) > 20)]

\* query.replace('"', '').replace("'", "").strip()
CleanQuery(query) == Strip(Remove(Remove(query, "\""), "'"))

\* A search that hands every name to the source as it is.
search_subreddit_unchecked(forum, subreddit_name, query, limit) ==
    IF CharLen(CleanQuery(query)) < 3
    THEN [posts |-> <<>>, issued |-> FALSE]
    ELSE [posts |-> Map(Take(Yielded(forum, subreddit_name, CleanQuery(query)),
                             limit), PostData),
          issued |-> TRUE]

\* DataCollectionAgent.search_subreddit: the posts found, and whether the
\* search was issued to the source at all.
search_subreddit(forum, subreddit_name, query, limit) ==
    IF \/ subreddit_name = <<>>
       \/ CharLen(subreddit_name) < 3
       \/ HasSpace(subreddit_name)
       \/ HasSlash(subreddit_name)
    THEN [posts |-> <<>>, issued |-> FALSE]
    ELSE IF CharLen(CleanQuery(query)) < 3
    THEN [posts |-> <<>>, issued |-> FALSE]
    ELSE [posts |-> Map(Take(Yielded(forum, subreddit_name, CleanQuery(query)),
                             limit), PostData),
          issued |-> TRUE]

\* posts_per_query, the default of collect_data
PostsPerQuery == 2

RECURSIVE Flatten(_)
Flatten(lists) ==
    IF lists = <<>> THEN <<>> ELSE Head(lists) \o Flatten(Tail(lists))

\* The pairs in the order of loops nested the other way round.
pairs_query_major(subreddits, queries) ==
    [k \in 1..(Len(subreddits) * Len(queries)) |->
        [subreddit |-> subreddits[((k - 1) % Len(subreddits)) + 1],
         query     |-> queries[((k - 1) \div Len(subreddits)) + 1]]]

\* The (subreddit, query) pairs in the order of the nested loops.
Pairs(subreddits, queries) ==
    [k \in 1..(Len(subreddits) * Len(queries)) |->
        [subreddit |-> subreddits[((k - 1) \div Len(queries)) + 1],
         query     |-> queries[((k - 1) % Len(queries)) + 1]]]

\* The searches of a sequence of pairs: all posts found, and the pairs
\* whose search was issued.
SearchPairs(forum, pairs, limit) ==
    [posts |-> Flatten(Map(pairs, LAMBDA p :
                  search_subreddit(forum, p.subreddit, p.query, limit).posts)),
     searches |-> SelectSeq(pairs, LAMBDA p :
                  search_subreddit(forum, p.subreddit, p.query, limit).issued)]

\* The number of subreddits for which some query found a post.
Successful(forum, subreddits, queries, limit) ==
    Cardinality({i \in 1..Len(subreddits) :
        \E j \in 1..Len(queries) :
            search_subreddit(forum, subreddits[i], queries[j], limit).posts # <<>>})

CleanSubreddits(subreddits) ==
    Map(SelectSeq(subreddits,
                  LAMBDA name : /\ name # <<>>
                                /\ CharLen(name) > 2
                                /\ ~HasSpace(name)
                                /\ ~StartsWithLt(name)),
        LAMBDA name : Lower(Strip(name)))

CleanQueries(queries) ==
    SelectSeq(Map(SelectSeq(queries, LAMBDA q : q # <<>> /\ CharLen(q) > 3),
                  CleanQuery),
              LAMBDA q : q # <<>>)

DefaultSubreddits ==
    << <<"askreddit">>, <<"advice">>, <<"tipofmytongue">>, <<"buyitforlife">> >>

DefaultQueries ==
    << <<"review">>, <<"recommendation">>, <<"problem">>, <<"alternative">> >>

FallbackQueryList == << <<"recommendation">>, <<"review">>, <<"advice">> >>

\* The second round, entered when no post was found although some
\* subreddit was counted as successful.
Join(first, second) ==
    [posts |-> first.posts \o second.posts,
     searches |-> first.searches \o second.searches]

CollectFrom(forum, subreddits, queries, limit) ==
    IF /\ SearchPairs(forum, Pairs(subreddits, queries), limit).posts = <<>>
       /\ Successful(forum, subreddits, queries, limit) > 0
    THEN Join(SearchPairs(forum, Pairs(subreddits, queries), limit),
              SearchPairs(forum, Pairs(Take(subreddits, 3), FallbackQueryList), 2))
    ELSE SearchPairs(forum, Pairs(subreddits, queries), limit)

\* DataCollectionAgent.collect_data: the posts collected and the searches
\* issued to the source.
collect_data(forum, subreddits, queries, posts_per_query) ==
    CollectFrom(forum,
                OrIfEmpty(CleanSubreddits(subreddits), DefaultSubreddits),
                OrIfEmpty(CleanQueries(queries), DefaultQueries),
                posts_per_query)

(***************************************************************************)
(* AnalysisAgent                                                           *)
(***************************************************************************)
\* openai_generator.generate_structured_data: the parsed content, or the
\* expected format when the content is not JSON; a failure of the call is
\* not caught.
LoadedOr(loaded, expected_format) ==
    IF loaded.ok THEN Return(loaded.val) ELSE Return(expected_format)

generate_structured_data(keys, expected_format, o) ==
    IF KeyMissing(keys, "openai") THEN Raise("ValueError")
    ELSE IF ~o.ok THEN Raise(o.err)
    ELSE LoadedOr(JsonLoads(Strip(o.text)), expected_format)

ExpectedEvaluations ==
    PyList(<<PyDict([post_index |-> PyNum(0),
                     relevance_score |-> PyNum(7),
                     reason |-> PyStr(<<"Example reason">>)])>>)

\* The loop over the evaluations: a post of the batch is kept for every
\* item rated 6 or more whose index lies in the batch.  An item that is not
\* a dict has no get(); a score or an index that is not a number cannot be
\* compared.
RECURSIVE KeepRelevant(_, _, _)
KeepRelevant(items, batch, kept) ==
    IF items = <<>> THEN Return(IF kept # <<>> THEN kept ELSE batch)
    ELSE IF Head(items).t # "dict" THEN Raise("AttributeError")
    ELSE IF Get(Head(items).d, "relevance_score", PyNum(0)).t # "num"
    THEN Raise("TypeError")
    ELSE IF Get(Head(items).d, "relevance_score", PyNum(0)).n < 6
    THEN KeepRelevant(Tail(items), batch, kept)
    ELSE IF Get(Head(items).d, "post_index", PyNum(-1)).t # "num"
    THEN Raise("TypeError")
    ELSE IF /\ Get(Head(items).d, "post_index", PyNum(-1)).n >= 0
            /\ Get(Head(items).d, "post_index", PyNum(-1)).n < Len(batch)
    THEN KeepRelevant(Tail(items), batch,
             Append(kept, batch[Get(Head(items).d, "post_index", PyNum(-1)).n + 1]))
    ELSE KeepRelevant(Tail(items), batch, kept)

\* "if not evaluations: return batch", then "for eval_item in evaluations":
\* a dict and a string are iterated key by key and character by character,
\* a number is not iterable.
SelectRelevant(evaluations, batch) ==
    IF ~Truthy(evaluations) THEN Return(batch)
    ELSE IF evaluations.t = "list" THEN KeepRelevant(evaluations.l, batch, <<>>)
    ELSE IF evaluations.t = "num" THEN Raise("TypeError")
    ELSE Raise("AttributeError")

\* "if not isinstance(evaluations, list): evaluations = [evaluations]"
AsList(v) == IF v.t = "list" THEN v ELSE PyList(<<v>>)

StructuredFilter(structured, batch, backend) ==
    [out |-> IF structured.kind = "raise" THEN structured
             ELSE SelectRelevant(AsList(structured.value), batch),
     response |-> <<>>,
     calls |-> <<backend>>]

ExtractedFilter(llm, batch) ==
    [out |-> SelectRelevant(
                 extract_json_from_llm_response(llm.text, PyList(<<>>)).value,
                 batch),
     response |-> llm.text,
     calls |-> llm.calls]

\* AnalysisAgent.filter_posts_by_relevance; the value is a sequence of posts.
filter_posts_by_relevance(agent, keys, posts_data, product_info, o1, o2) ==
    IF posts_data = <<>>
    THEN [out |-> Return(<<>>), response |-> <<>>, calls |-> <<>>]
    ELSE IF MissingKey(product_info,
                       {"product_name", "product_description", "target_audience"})
    THEN Failed("KeyError")
    ELSE IF agent.llm_provider = "openai"
    THEN StructuredFilter(
             generate_structured_data(keys, ExpectedEvaluations, o1),
             Take(posts_data, 10), BackendCall("openai", agent.model_name))
    ELSE ExtractedFilter(
             generate_llm_response(agent, keys, "relevance", o1, o2),
             Take(posts_data, 10))

NoDataInsights ==
    PyDict([pain_points |-> PyList(<<PyStr(<<"No relevant data found">>)>>),
            language |-> PyList(<<PyStr(<<"General terms only">>)>>),
            topics |-> PyList(<<PyStr(<<"Insufficient data">>)>>),
            insights |-> PyStr(<<"No relevant data found from Reddit scraping.">>)])

UnparsedInsights ==
    PyDict([pain_points |-> PyList(<<PyStr(<<"Unclear from data">>)>>),
            language |-> PyList(<<PyStr(<<"General terms only">>)>>),
            topics |-> PyList(<<PyStr(<<"Insufficient data">>)>>),
            insights |-> PyStr(<<"Analysis failed to parse properly. Please review the raw data.">>)])

\* "if key not in insights: insights[key] = []"
WithKey(d, key) == IF key \in DOMAIN d THEN d ELSE Put(d, key, PyList(<<>>))

\* The four required keys, in order; an empty "insights" is replaced.
WithInsightsText(d) ==
    IF Truthy(d["insights"]) THEN d
    ELSE Put(d, "insights", PyStr(<<"No specific insights generated.">>))

\* The end of extract_key_insights: a payload that is not a dict makes the
\* membership test or the item assignment raise.
RequireKeys(insights) ==
    IF insights.t # "dict" THEN Raise("TypeError")
    ELSE Return(PyDict(WithInsightsText(
             WithKey(WithKey(WithKey(WithKey(insights.d, "pain_points"),
                                     "language"), "topics"), "insights"))))

InsightsFrom(llm) ==
    [out |-> RequireKeys(
                 extract_json_from_llm_response(llm.text, UnparsedInsights).value),
     response |-> llm.text,
     calls |-> llm.calls]

\* AnalysisAgent.extract_key_insights
extract_key_insights(agent, keys, posts_data, product_info, o1, o2) ==
    IF posts_data = <<>>
    THEN [out |-> Return(NoDataInsights), response |-> <<>>, calls |-> <<>>]
    ELSE IF MissingKey(product_info,
                       {"product_name", "product_description", "target_audience"})
    THEN Failed("KeyError")
    ELSE InsightsFrom(generate_llm_response(agent, keys, "insights", o1, o2))

\* A pain point from one use case (stripped and lower-cased).
PainPointOf(use_case) ==
    IF Within("pain", use_case) THEN <<"Chronic or recurring ">> \o use_case
    ELSE IF Within("quality", use_case)
    THEN <<"Poor or inconsistent ">> \o use_case
    ELSE IF Within("improve", use_case)
    THEN <<"Dissatisfaction with current ">>
         \o Strip(Remove(Remove(use_case, "improving"), "improve"))
         \o <<" solutions">>
    ELSE <<"Frustration with inadequate ">> \o use_case \o <<" options">>

UseCasePainPoints(use_cases) ==
    IF use_cases = <<>> THEN <<>>
    ELSE Map(Split(use_cases, ","), LAMBDA u : PainPointOf(Lower(Strip(u))))

ProblemIndicators ==
    <<"solve", "problem", "challenge", "improve", "enhance", "prevent", "reduce">>

\* For every indicator the description holds, the text after its first
\* occurrence up to the next occurrence and up to the first full stop.
\* (The descriptions of the model hold an indicator as a whole token only.)
DescriptionPainPoints(description) ==
    Map(SelectSeq(ProblemIndicators,
                  LAMBDA ind : \E i \in 1..Len(description) : description[i] = ind),
        LAMBDA ind : <<"Difficulty with ">>
                     \o Split(Strip(Split(description, ind)[2]), ".")[1])

GenericPainPoints(product_info) ==
    << <<"Frustration with current ">> \o product_info["product_name"]
          \o <<" alternatives">>,
       <<"Dissatisfaction with the quality of existing solutions">>,
       <<"Feeling overwhelmed by too many complex options">>,
       <<"Wasting time and money on ineffective products">>,
       <<"Stress from dealing with persistent problems">> >>

PadPainPoints(pain_points, product_info) ==
    Take(Unique(IF Len(pain_points) < 3
                THEN pain_points \o GenericPainPoints(product_info)
                ELSE pain_points), 5)

\* AnalysisAgent._generate_default_pain_points; a sequence of texts.
_generate_default_pain_points(product_info) ==
    PadPainPoints(
        OrIfEmpty(UseCasePainPoints(Get(product_info, "use_cases", <<>>)),
                  DescriptionPainPoints(
                      Lower(Get(product_info, "product_description", <<>>)))),
        product_info)

AudienceLanguage(audience) ==
    (IF Within("professional", audience)
     THEN << <<"ROI">>, <<"efficiency">>, <<"performance">>, <<"productivity">> >>
     ELSE <<>>)
    \o (IF Within("parent", audience)
        THEN << <<"family-friendly">>, <<"time-saving">>, <<"child-safe">>,
                <<"peace of mind">> >>
        ELSE <<>>)
    \o (IF Within("health", audience)
        THEN << <<"wellness">>, <<"self-care">>, <<"healthy lifestyle">>,
                <<"well-being">> >>
        ELSE <<>>)
    \o (IF Within("tech", audience)
        THEN << <<"innovative">>, <<"cutting-edge">>, <<"state-of-the-art">>,
                <<"seamless">> >>
        ELSE <<>>)

GenericLanguage ==
    << <<"game-changer">>, <<"life-changing">>, <<"revolutionary">>,
       <<"must-have">>, <<"essential">>, <<"breakthrough">>, <<"hassle-free">> >>

NonEmpty(items) == SelectSeq(items, LAMBDA x : x # <<>>)

\* AnalysisAgent._generate_default_language; a sequence of texts.
_generate_default_language(product_info) ==
    Take(Unique(NonEmpty(
            NonEmpty(Map(Split(Get(product_info, "keywords", <<>>), ","), Strip))
            \o AudienceLanguage(Lower(Get(product_info, "target_audience", <<>>)))
            \o StrippedTerms(Get(product_info, "niche", <<>>))
            \o GenericLanguage)), 7)

GenericTopics ==
    << <<"Sustainable and eco-friendly alternatives">>,
       <<"Digital transformation in daily life">>,
       <<"Health and wellness optimization">>,
       <<"Work-life balance improvements">>,
       <<"Smart technology integration">> >>

\* AnalysisAgent._generate_default_topics; a sequence of texts.
_generate_default_topics(product_info) ==
    Take(Unique(
            Map(NonEmpty(StrippedTerms(Get(product_info, "niche", <<>>))),
                LAMBDA term : term \o <<" innovation">>)
            \o Map(NonEmpty(StrippedTerms(Get(product_info, "keywords", <<>>))),
                   LAMBDA term : <<"Advancements in ">> \o term)
            \o GenericTopics), 5)

\* A list of strings as a Python value.
StrList(texts) == PyList(Map(texts, PyStr))

InferredInsightsText(product_info) ==
    PyStr(<<"Without access to specific user data, we can infer that ">>
          \o product_info["target_audience"]
          \o <<" likely experience issues that ">>
          \o product_info["product_name"]
          \o <<" can solve. The marketing campaign should focus on highlighting how the product addresses these pain points while using terminology familiar to the audience.">>)

\* The value synthesize_insights_without_data puts for a missing or empty key.
DefaultFor(key, product_info) ==
    CASE key = "pain_points" -> StrList(_generate_default_pain_points(product_info))
      [] key = "language"    -> StrList(_generate_default_language(product_info))
      [] key = "topics"      -> StrList(_generate_default_topics(product_info))
      [] key = "insights"    -> InferredInsightsText(product_info)

SynthesisDefault(product_info) ==
    PyDict([key \in {"pain_points", "language", "topics", "insights"} |->
                DefaultFor(key, product_info)])

\* str(v); the text of a list or of a dict is not spelled out.
Str(v) ==
    CASE v.t = "str"  -> v.s
      [] v.t = "num"  -> <<ToString(v.n)>>
      [] v.t = "none" -> <<"None">>
      [] OTHER        -> <<"repr">>

\* The three passes over a dict payload: defaults for what is missing or
\* empty, lists around what is not a list, a string for "insights".
Defaulted(d, product_info) ==
    [key \in (DOMAIN d) \cup {"pain_points", "language", "topics", "insights"} |->
        IF /\ key \in {"pain_points", "language", "topics", "insights"}
           /\ (key \notin DOMAIN d \/ ~Truthy(d[key]))
        THEN DefaultFor(key, product_info)
        ELSE d[key]]

Structured(d) ==
    [key \in DOMAIN d |->
        IF key \in {"pain_points", "language", "topics"} /\ d[key].t # "list"
        THEN PyList(<<PyStr(Str(d[key]))>>)
        ELSE IF key = "insights" /\ d[key].t # "str"
        THEN PyStr(Str(d[key]))
        ELSE d[key]]

Completed(insights, product_info) ==
    IF insights.t # "dict" THEN Raise("TypeError")
    ELSE Return(PyDict(Structured(Defaulted(insights.d, product_info))))

SynthesisFrom(llm, product_info) ==
    [out |-> Completed(
                 extract_json_from_llm_response(
                     llm.text, SynthesisDefault(product_info)).value,
                 product_info),
     response |-> llm.text,
     calls |-> llm.calls]

\* AnalysisAgent.synthesize_insights_without_data
synthesize_insights_without_data(agent, keys, product_info, o1, o2) ==
    IF MissingKey(product_info, {"product_name", "product_description",
                                 "target_audience", "campaign_goal"})
    THEN Failed("KeyError")
    ELSE SynthesisFrom(generate_llm_response(agent, keys, "synthesis", o1, o2),
                       product_info)

(***************************************************************************)
(* CopywritingAgent                                                        *)
(***************************************************************************)
\* The platforms the agents hold instructions and criteria for.
Platforms == {"general", "instagram", "youtube", "video", "tiktok", "facebook"}

\* The platform tag used as it is given.
select_platform_as_given(platform) == platform

\* if platform not in platform_instructions: platform = "general"
SelectPlatform(platform) == IF platform \in Platforms THEN platform ELSE "general"

\* The instruction blocks of the CopywritingAgent and the criteria blocks of
\* the ReviewAgent, one for each platform.
platform_instructions ==
    [p \in Platforms |-> [block |-> "instructions", platform |-> p]]

platform_criteria ==
    [p \in Platforms |-> [block |-> "criteria", platform |-> p]]

\* blocks[platform]: KeyError for a platform without a block.
Subscript(blocks, platform) ==
    IF platform \in DOMAIN blocks THEN Return(blocks[platform])
    ELSE Raise("KeyError")

\* The block that goes into the prompt of generate_ad_script, and the one
\* that goes into the prompt of review_ad_script.
InstructionBlock(platform) ==
    Subscript(platform_instructions, SelectPlatform(platform))

CriteriaBlock(platform) ==
    Subscript(platform_criteria, SelectPlatform(platform))

\* ', '.join(v): works on a list of strings, a string or a dict.
Joinable(v) ==
    \/ v.t \in {"str", "dict"}
    \/ v.t = "list" /\ \A i \in 1..Len(v.l) : v.l[i].t = "str"

\* The first exception of ', '.join(insights[key]) over the keys in order.
RECURSIVE JoinProblem(_, _)
JoinProblem(d, joined) ==
    IF joined = <<>> THEN ""
    ELSE IF Head(joined) \notin DOMAIN d THEN "KeyError"
    ELSE IF ~Joinable(d[Head(joined)]) THEN "TypeError"
    ELSE JoinProblem(d, Tail(joined))

ScriptFrom(llm) == Done(PyStr(llm.text), llm)

\* CopywritingAgent.generate_ad_script: the cleaned text of the model as it
\* is, whatever the platform.
generate_ad_script(agent, keys, insights, product_info, platform, o1, o2) ==
    IF MissingKey(product_info, {"product_name", "product_description",
                                 "target_audience", "campaign_goal"})
    THEN Failed("KeyError")
    ELSE IF JoinProblem(insights.d, <<"pain_points", "language", "topics">>) # ""
    THEN Failed(JoinProblem(insights.d, <<"pain_points", "language", "topics">>))
    ELSE IF "insights" \notin DOMAIN insights.d THEN Failed("KeyError")
    ELSE ScriptFrom(generate_llm_response(agent, keys, "copywriting", o1, o2))

(***************************************************************************)
(* ReviewAgent                                                             *)
(***************************************************************************)
\* A platform name as a text.
PlatformText(platform) == IF platform = "" THEN <<>> ELSE <<platform>>

\* The default handed to the extraction by review_ad_script.
DefaultReview(ad_script, platform) ==
    PyDict([score |-> PyNum(7),
            strengths |-> PyList(<<PyStr(<<"Generally on target">>)>>),
            weaknesses |-> PyList(<<PyStr(<<"Could be more specific">>)>>),
            suggestions |-> PyList(<<PyStr(<<"Review original script">>)>>),
            platform_specific_feedback |->
                PyStr(<<"Consider optimizing further for", " ">>
                      \o PlatformText(platform) \o <<" ", "format">>),
            improved_script |-> PyStr(ad_script)])

\* The end of review_ad_script with the fallback to the original script
\* taken only for an absent field, not for an empty one.
review_fills_absent_only(review, ad_script, platform) ==
    IF review.t # "dict" THEN Raise("TypeError")
    ELSE LET filled ==
                 IF "improved_script" \notin DOMAIN review.d
                 THEN Put(review.d, "improved_script", PyStr(ad_script))
                 ELSE review.d
         IN  Return(PyDict(Put(filled, "platform", PyStr(PlatformText(platform)))))

\* The end of review_ad_script, from the extracted payload on:
\*   if "improved_script" not in review or not review["improved_script"]:
\*       review["improved_script"] = ad_script
\*   review["platform"] = platform
\* A payload that is not a dict makes the membership test, the subscript or
\* the item assignment raise TypeError.
FinishReview(review, ad_script, platform) ==
    IF review.t # "dict" THEN Raise("TypeError")
    ELSE LET filled ==
                 IF \/ "improved_script" \notin DOMAIN review.d
                    \/ ~Truthy(review.d["improved_script"])
                 THEN Put(review.d, "improved_script", PyStr(ad_script))
                 ELSE review.d
         IN  Return(PyDict(Put(filled, "platform", PyStr(PlatformText(platform)))))

\* From the answer of generate_llm_response to the result: the outcome, the
\* text the model gave and the adapter calls made.
ReviewFrom(llm, ad_script, platform) ==
    [out |-> FinishReview(
                 extract_json_from_llm_response(
                     llm.text, DefaultReview(ad_script, platform)).value,
                 ad_script, platform),
     response |-> llm.text, calls |-> llm.calls]

\* ReviewAgent.review_ad_script
review_ad_script(agent, keys, ad_script, product_info, insights, platform, o1, o2) ==
    IF MissingKey(product_info, {"product_name", "product_description",
                                 "target_audience", "campaign_goal"})
    THEN Failed("KeyError")
    ELSE IF JoinProblem(insights.d, <<"pain_points", "language">>) # ""
    THEN Failed(JoinProblem(insights.d, <<"pain_points", "language">>))
    ELSE ReviewFrom(generate_llm_response(agent, keys, "review", o1, o2),
                    ad_script, SelectPlatform(platform))

(***************************************************************************)
(* Reviewing one script: the input script, the platform, the agent's       *)
(* provider and what the backends do all vary.                             *)
(***************************************************************************)
AllKeys == {"openai", "claude", "groq"}

\* A complete product description.
SampleProduct ==
    [product_name |-> <<"FocusFlow">>,
     product_description |-> <<"focus", " ", "timer">>,
     target_audience |-> <<"students">>,
     campaign_goal |-> <<"signups">>]

\* Insights as the Analysis stage hands them on.
SampleInsights ==
    PyDict([pain_points |-> PyList(<<PyStr(<<"distraction">>)>>),
            language |-> PyList(<<PyStr(<<"deep", " ", "work">>)>>),
            topics |-> PyList(<<PyStr(<<"focus">>)>>),
            insights |-> PyStr(<<"x">>)])

ImprovedObject == <<"{", "\"improved_script\":", "\"better\"", "}">>

\* Model outputs for the review prompt: nothing, prose, a full payload, a
\* payload without the field, with an empty field, with a field that is not
\* a string, payloads that are not objects, and wrapped payloads.
ReviewAnswers ==
    { <<>>,
      <<"x">>,
      <<"{", "\"improved_script\":", "\"better\"", ",", "\"score\":", "9", "}">>,
      <<"{", "\"score\":", "9", "}">>,
      <<"{", "\"improved_script\":", "\"\"", "}">>,
      <<"{", "\"improved_script\":", "7", "}">>,
      <<"[", "]">>,
      <<"7">>,
      <<"\"s\"">>,
      <<"null">>,
      <<"x", " ">> \o ImprovedObject \o <<" ", "x">>,
      <<"<think", ">", "x", "</think", ">">> \o ImprovedObject,
      <<Fence, "json">> \o ImprovedObject \o <<Fence>> }

ReviewOutcomes == {ClientError, ApiError} \cup {Completion(a) : a \in ReviewAnswers}

ReviewScripts == {<<>>, <<"Try", " ", "FocusFlow">>}

ReviewPlatforms == {"general", "tiktok", "linkedin"}

InitReview ==
    /\ pc = "start"
    /\ call \in {[op |-> "review_ad_script",
                  agent |-> MakeAgent(p, ""),
                  keys |-> AllKeys,
                  ad_script |-> a,
                  platform |-> pl] :
                    p \in Providers \cup {"mistral"},
                    a \in ReviewScripts, pl \in ReviewPlatforms}
    /\ ret = [out |-> Return(PyNone), response |-> <<>>, calls |-> <<>>]
    /\ NoRun

ReviewScript ==
    /\ pc = "start"
    /\ call.op = "review_ad_script"
    /\ \E o1 \in ReviewOutcomes, o2 \in ReviewOutcomes :
          ret' = review_ad_script(call.agent, call.keys, call.ad_script,
                                  SampleProduct, SampleInsights,
                                  call.platform, o1, o2)
    /\ pc' = "done"
    /\ UNCHANGED <<call, run>>

NextReview == ReviewScript

SpecReview == InitReview /\ [][NextReview]_vars

\* The payload the extraction finds in a text, None when there is none.
PayloadOf(response) == extract_json_from_llm_response(response, PyNone).value

\* The model output carries no usable "improved_script": no payload can be
\* extracted, or the field is absent from it, or the field is empty.
LacksImprovedScript(response) ==
    LET payload == PayloadOf(response)
    IN  \/ payload.t # "dict"
        \/ "improved_script" \notin DOMAIN payload.d
        \/ ~Truthy(payload.d["improved_script"])

Reviewed == pc = "done" /\ call.op = "review_ad_script"

\* C5: whenever the model output of the review carries no usable
\* "improved_script" (absent, empty, or no payload extractable at all),
\* review_ad_script returns a Review whose improved_script is the input
\* script, for any input script, the empty one included.
C5_ReviewFallsBackToInput ==
    (Reviewed /\ LacksImprovedScript(ret.response)) =>
        /\ ret.out.kind = "return"
        /\ ret.out.value.d["improved_script"] = PyStr(call.ad_script)

\* C6 as stated: the improved_script of every returned Review is non-empty.
C6_ImprovedScriptNonEmpty ==
    (Reviewed /\ ret.out.kind = "return") =>
        Truthy(ret.out.value.d["improved_script"])

\* C6 amended: the improved_script of every returned Review is non-empty
\* whenever the input script is non-empty.
C6_ImprovedScriptNonEmptyForNonEmptyInput ==
    (Reviewed /\ ret.out.kind = "return" /\ call.ad_script # <<>>) =>
        Truthy(ret.out.value.d["improved_script"])

\* A review of a non-empty script whose model output held an empty
\* improved_script, returned with the input script in its place.
C6_Witness ==
    /\ Reviewed
    /\ ret.out.kind = "return"
    /\ call.ad_script # <<>>
    /\ ret.response = <<"{", "\"improved_script\":", "\"\"", "}">>
    /\ ret.out.value.d["improved_script"] = PyStr(call.ad_script)


(***************************************************************************)
(* AdGeneratorOrchestrator.generate_ad, one action per stage.  Every       *)
(* action appends to the log, in the order of the code, the banner of its  *)
(* stage, the agent operations called, the backend and search calls they   *)
(* made, the store of the stage record and the artifact written.           *)
(***************************************************************************)
Event(stage, kind, target, arg) ==
    [stage |-> stage, kind |-> kind, target |-> target, arg |-> arg]

Started(stage, note) == Event(stage, "start", stage, note)
Called(stage, operation) == Event(stage, "agent", operation, "")
Stored(stage, key) == Event(stage, "store", key, "")
Backends(stage, calls) ==
    Map(calls, LAMBDA c : Event(stage, c.kind, c.target, c.arg))
Searched(searches) ==
    Map(searches, LAMBDA p : Event("DataCollection", "search", "reddit", ""))

\* with open(f"{file}_{platform}...", "w") under its condition
Saved(condition, stage, file, platform) ==
    IF condition THEN <<Event(stage, "write", file, platform)>> ELSE <<>>

\* The steps of generate_ad with the data collection left out.
research_then_analysis(stage) ==
    CASE stage = "Research" -> "Analysis"
      [] stage = "DataCollection" -> "Analysis"
      [] stage = "Analysis"       -> "Copywriting"
      [] stage = "Copywriting"    -> "Review"
      [] stage = "Review"         -> "Final"
      [] stage = "Final"          -> "Runbook"
      [] stage = "Runbook"        -> "done"

\* The step that follows a step of generate_ad.
After(stage) ==
    CASE stage = "Research"       -> "DataCollection"
      [] stage = "DataCollection" -> "Analysis"
      [] stage = "Analysis"       -> "Copywriting"
      [] stage = "Copywriting"    -> "Review"
      [] stage = "Review"         -> "Final"
      [] stage = "Final"          -> "Runbook"
      [] stage = "Runbook"        -> "done"

\* platform = platform or "general"
PlatformOr(platform) == IF platform = "" THEN "general" ELSE platform

\* open(file, "w") raises OSError where the working directory cannot be
\* written; no handler of generate_ad catches it.
WriteFails(condition, disk) == condition /\ disk = "readonly"

\* What follows the store of a stage record: the artifact is written under
\* its condition and the next step is taken, or the write raises.
Continue(stage, condition) ==
    IF WriteFails(condition, call.disk)
    THEN pc' = "raised" /\ ret' = Failed("OSError")
    ELSE pc' = After(stage) /\ UNCHANGED ret

\* The result dict as generate_ad first builds it.
NewResults(c) ==
    [product_info |-> c.product_info,
     stages |-> EmptyDict,
     configuration |-> [llm_provider |-> c.agent.llm_provider,
                        model_name |-> c.model_name,
                        skip_reddit |-> c.skip_reddit,
                        platform |-> PlatformOr(c.platform)]]

\* The locals of generate_ad before their assignment.
NoLocals ==
    [subreddits |-> <<>>, queries |-> <<>>, posts_data |-> <<>>,
     relevant_posts |-> <<>>, analysed |-> <<>>, insights |-> PyNone,
     ad_script |-> <<>>, review |-> PyNone]

\* results["stages"][key] = record
StoreStage(res, key, record) == [res EXCEPT !.stages = Put(@, key, record)]

\* An exception leaves generate_ad: nothing is returned.
Abort(exc, events) ==
    /\ pc' = "raised"
    /\ ret' = Failed(exc)
    /\ log' = log \o events
    /\ UNCHANGED <<results, locals>>

(***************************************************************************)
(* What the collaborators answer.  A run is against backends that are all  *)
(* down, that all answer nothing, that all answer prose, or against mixed  *)
(* ones: there every call gets the expected answer or, while the run has   *)
(* had fewer than MaxFaults of them, another one.                          *)
(***************************************************************************)
Worlds == {"mixed", "outage", "mute", "garbled"}

FullInsights ==
    <<"{", "\"pain_points\":", "[", "\"s\"", "]", ",",
           "\"language\":", "[", "\"s\"", "]", ",",
           "\"topics\":", "[", "\"s\"", "]", ",",
           "\"insights\":", "\"s\"", "}">>

Expected(site) ==
    CASE site = "subreddits"  -> <<"productivity", ",", " ", "r/", "AskReddit">>
      [] site = "queries"     -> <<"focus", " ", "timer", ",", " ", "\"",
                                   "study", " ", "habits", "\"">>
      [] site = "relevance"   -> <<"[", "{", "\"post_index\":", "0", ",",
                                   "\"relevance_score\":", "7", "}", "]">>
      [] site = "insights"    -> FullInsights
      [] site = "synthesis"   -> FullInsights
      [] site = "copywriting" -> <<"Try", " ", "FocusFlow">>
      [] site = "review"      -> <<"{", "\"improved_script\":", "\"better\"", ",",
                                   "\"score\":", "9", "}">>

Unexpected(site) ==
    CASE site = "subreddits"  -> {<<>>}
      [] site = "queries"     -> {<<>>}
      [] site = "relevance"   -> {<<"x">>, <<"[", "7", "]">>,
                                  <<"[", "{", "\"post_index\":", "0", ",",
                                    "\"relevance_score\":", "5", "}", "]">>}
      [] site = "insights"    -> {<<"x">>, <<"7">>,
                                  <<"{", "\"pain_points\":", "7", "}">>}
      [] site = "synthesis"   -> {<<"x">>, <<"7">>,
                                  <<"{", "\"pain_points\":", "7", "}">>}
      [] site = "copywriting" -> {<<>>}
      [] site = "review"      -> {<<"x">>, <<"[", "]">>,
                                  <<"{", "\"improved_script\":", "7", "}">>,
                                  <<"{", "\"improved_script\":", "\"\"", "}">>}

Answer(o1, o2, cost) == [o1 |-> o1, o2 |-> o2, cost |-> cost]

\* What the configured backend (o1) and the fallback backend (o2) do at a
\* prompt site, and whether that counts as a fault of the run.
Choices(world, site) ==
    CASE world = "outage"  -> {Answer(ApiError, ApiError, 0)}
      [] world = "mute"    -> {Answer(Completion(<<>>), ApiError, 0)}
      [] world = "garbled" -> {Answer(Completion(<<"x">>), ApiError, 0)}
      [] world = "mixed"   ->
            {Answer(Completion(Expected(site)), ApiError, 0),
             Answer(ApiError, Completion(Expected(site)), 1),
             Answer(ClientError, ApiError, 1)}
            \cup {Answer(Completion(a), ApiError, 1) : a \in Unexpected(site)}

(***************************************************************************)
(* Stage 1: Research                                                       *)
(***************************************************************************)
ResearchEvents(subs, queries, save, platform) ==
    <<Started("Research", ""), Called("Research", "find_relevant_subreddits")>>
    \o Backends("Research", subs.calls)
    \o <<Called("Research", "generate_search_queries")>>
    \o Backends("Research", queries.calls)
    \o <<Stored("Research", "research")>>
    \o Saved(save, "Research", "stage1_research", platform)

Researched(subs, queries) ==
    IF subs.out.kind = "raise"
    THEN Abort(subs.out.exc, <<Started("Research", ""),
                               Called("Research", "find_relevant_subreddits")>>)
    ELSE IF queries.out.kind = "raise"
    THEN Abort(queries.out.exc, <<Started("Research", ""),
                                  Called("Research", "find_relevant_subreddits")>>
                                \o Backends("Research", subs.calls)
                                \o <<Called("Research", "generate_search_queries")>>)
    ELSE /\ locals' = [locals EXCEPT !.subreddits = subs.out.value,
                                     !.queries = queries.out.value]
         /\ results' = StoreStage(results, "research",
                                  [subreddits |-> subs.out.value,
                                   queries |-> queries.out.value])
         /\ log' = log \o ResearchEvents(subs, queries, call.save_intermediates,
                                         PlatformOr(call.platform))
         /\ Continue("Research", call.save_intermediates)

Research ==
    /\ pc = "Research"
    /\ call.op = "generate_ad"
    /\ \E a1 \in Choices(call.world, "subreddits"),
          a2 \in Choices(call.world, "queries") :
          /\ faults + a1.cost + a2.cost <= MaxFaults
          /\ faults' = faults + a1.cost + a2.cost
          /\ Researched(find_relevant_subreddits(call.agent, call.keys,
                            call.product_info, a1.o1, a1.o2),
                        generate_search_queries(call.agent, call.keys,
                            call.product_info, a2.o1, a2.o2))
    /\ UNCHANGED call

(***************************************************************************)
(* Stage 2: Data Collection                                                *)
(***************************************************************************)
\* A data_collection record that counts nothing.
collection_record_counts_nothing(posts_data, skipped) ==
    IF skipped THEN [posts_count |-> 0, skipped |-> TRUE]
    ELSE [posts_count |-> 0]

\* results["stages"]["data_collection"]
CollectionRecord(posts_data, skipped) ==
    IF skipped THEN [posts_count |-> 0, skipped |-> TRUE]
    ELSE [posts_count |-> Len(posts_data)]

Collected(collected) ==
    /\ locals' = [locals EXCEPT !.posts_data = collected.posts]
    /\ results' = StoreStage(results, "data_collection",
                             CollectionRecord(collected.posts, FALSE))
    /\ log' = log \o <<Started("DataCollection", ""),
                       Called("DataCollection", "collect_data")>>
                  \o Searched(collected.searches)
                  \o <<Stored("DataCollection", "data_collection")>>
                  \o Saved(call.save_intermediates /\ collected.posts # <<>>,
                           "DataCollection", "stage2_raw_data",
                           PlatformOr(call.platform))
    /\ Continue("DataCollection",
                call.save_intermediates /\ collected.posts # <<>>)

DataCollection ==
    /\ pc = "DataCollection"
    /\ call.op = "generate_ad"
    /\ ~call.skip_reddit
    /\ \E forum \in Forums :
          Collected(collect_data(forum, locals.subreddits, locals.queries,
                                 PostsPerQuery))
    /\ UNCHANGED <<call, faults>>

SkipDataCollection ==
    /\ pc = "DataCollection"
    /\ call.op = "generate_ad"
    /\ call.skip_reddit
    /\ locals' = [locals EXCEPT !.posts_data = <<>>]
    /\ results' = StoreStage(results, "data_collection",
                             CollectionRecord(<<>>, TRUE))
    /\ log' = log \o <<Started("DataCollection", "skipped"),
                       Stored("DataCollection", "data_collection")>>
    /\ pc' = After("DataCollection")
    /\ UNCHANGED <<call, ret, faults>>

(***************************************************************************)
(* Stage 3: Analysis                                                       *)
(***************************************************************************)
\* The data path taken whatever was collected.
analysis_always_filters(posts_data) == "data"

\* if posts_data: ... else: ...
AnalysisPath(posts_data) == IF posts_data # <<>> THEN "data" ELSE "synthesis"

\* The posts handed to extract_key_insights
InsightsInput(posts_data, relevant_posts) == relevant_posts

AnalysisStored(insights, events) ==
    /\ results' = StoreStage(results, "analysis", insights)
    /\ log' = log \o events
                  \o <<Stored("Analysis", "analysis")>>
                  \o Saved(call.save_intermediates, "Analysis",
                           "stage3_analysis", PlatformOr(call.platform))
    /\ Continue("Analysis", call.save_intermediates)

FilterEvents(filtered) ==
    <<Started("Analysis", ""), Called("Analysis", "filter_posts_by_relevance")>>
    \o Backends("Analysis", filtered.calls)

Extracted(filtered, extracted) ==
    IF extracted.out.kind = "raise"
    THEN Abort(extracted.out.exc,
               FilterEvents(filtered)
               \o <<Called("Analysis", "extract_key_insights")>>
               \o Backends("Analysis", extracted.calls))
    ELSE /\ locals' = [locals EXCEPT
                          !.relevant_posts = filtered.out.value,
                          !.analysed = InsightsInput(locals.posts_data,
                                                     filtered.out.value),
                          !.insights = extracted.out.value]
         /\ AnalysisStored(extracted.out.value,
                           FilterEvents(filtered)
                           \o <<Called("Analysis", "extract_key_insights")>>
                           \o Backends("Analysis", extracted.calls))

Filtered(filtered, a) ==
    IF filtered.out.kind = "raise"
    THEN Abort(filtered.out.exc, FilterEvents(filtered))
    ELSE Extracted(filtered,
                   extract_key_insights(call.agent, call.keys,
                       InsightsInput(locals.posts_data, filtered.out.value),
                       call.product_info, a.o1, a.o2))

AnalyseData ==
    /\ pc = "Analysis"
    /\ call.op = "generate_ad"
    /\ AnalysisPath(locals.posts_data) = "data"
    /\ \E a1 \in Choices(call.world, "relevance"),
          a2 \in Choices(call.world, "insights") :
          /\ faults + a1.cost + a2.cost <= MaxFaults
          /\ faults' = faults + a1.cost + a2.cost
          /\ Filtered(filter_posts_by_relevance(call.agent, call.keys,
                          locals.posts_data, call.product_info, a1.o1, a1.o2),
                      a2)
    /\ UNCHANGED call

Synthesized(synthesized) ==
    IF synthesized.out.kind = "raise"
    THEN Abort(synthesized.out.exc,
               <<Started("Analysis", ""),
                 Called("Analysis", "synthesize_insights_without_data")>>
               \o Backends("Analysis", synthesized.calls))
    ELSE /\ locals' = [locals EXCEPT !.insights = synthesized.out.value]
         /\ AnalysisStored(synthesized.out.value,
                <<Started("Analysis", ""),
                  Called("Analysis", "synthesize_insights_without_data")>>
                \o Backends("Analysis", synthesized.calls))

Synthesize ==
    /\ pc = "Analysis"
    /\ call.op = "generate_ad"
    /\ AnalysisPath(locals.posts_data) = "synthesis"
    /\ \E a \in Choices(call.world, "synthesis") :
          /\ faults + a.cost <= MaxFaults
          /\ faults' = faults + a.cost
          /\ Synthesized(synthesize_insights_without_data(call.agent, call.keys,
                             call.product_info, a.o1, a.o2))
    /\ UNCHANGED call

(***************************************************************************)
(* Stage 4: Copywriting                                                    *)
(***************************************************************************)
CopyStored(script) ==
    IF script.out.kind = "raise"
    THEN Abort(script.out.exc,
               <<Started("Copywriting", ""),
                 Called("Copywriting", "generate_ad_script")>>
               \o Backends("Copywriting", script.calls))
    ELSE /\ locals' = [locals EXCEPT !.ad_script = script.out.value.s]
         /\ results' = StoreStage(results, "copywriting",
                                  [original_script |-> script.out.value.s,
                                   platform |-> PlatformOr(call.platform)])
         /\ log' = log \o <<Started("Copywriting", ""),
                            Called("Copywriting", "generate_ad_script")>>
                       \o Backends("Copywriting", script.calls)
                       \o <<Stored("Copywriting", "copywriting")>>
                       \o Saved(call.save_intermediates, "Copywriting",
                                "stage4_original_script",
                                PlatformOr(call.platform))
         /\ Continue("Copywriting", call.save_intermediates)

Copywriting ==
    /\ pc = "Copywriting"
    /\ call.op = "generate_ad"
    /\ \E a \in Choices(call.world, "copywriting") :
          /\ faults + a.cost <= MaxFaults
          /\ faults' = faults + a.cost
          /\ CopyStored(generate_ad_script(call.agent, call.keys, locals.insights,
                         call.product_info, PlatformOr(call.platform),
                         a.o1, a.o2))
    /\ UNCHANGED call

(***************************************************************************)
(* Stage 5: Review                                                         *)
(***************************************************************************)
ReviewStored(review) ==
    IF review.out.kind = "raise"
    THEN Abort(review.out.exc,
               <<Started("Review", ""), Called("Review", "review_ad_script")>>
               \o Backends("Review", review.calls))
    ELSE /\ locals' = [locals EXCEPT !.review = review.out.value]
         /\ results' = StoreStage(results, "review", review.out.value)
         /\ log' = log \o <<Started("Review", ""),
                            Called("Review", "review_ad_script")>>
                       \o Backends("Review", review.calls)
                       \o <<Stored("Review", "review")>>
                       \o Saved(call.save_intermediates, "Review",
                                "stage5_review", PlatformOr(call.platform))
         /\ Continue("Review", call.save_intermediates)

Review ==
    /\ pc = "Review"
    /\ call.op = "generate_ad"
    /\ \E a \in Choices(call.world, "review") :
          /\ faults + a.cost <= MaxFaults
          /\ faults' = faults + a.cost
          /\ ReviewStored(review_ad_script(call.agent, call.keys,
                              locals.ad_script, call.product_info,
                              locals.insights, PlatformOr(call.platform),
                              a.o1, a.o2))
    /\ UNCHANGED call

(***************************************************************************)
(* The final result, and stage 6: Runbook                                  *)
(***************************************************************************)
\* The final script taken from the Copywriting stage.
final_is_original_script(review, ad_script) == PyStr(ad_script)

\* review.get("improved_script", ad_script)
FinalScript(review, ad_script) ==
    Get(review.d, "improved_script", PyStr(ad_script))

\* The final result is stored, the file of the final script opened and the
\* script written; open raises OSError where the file cannot be written and
\* f.write raises TypeError for a value that is not a string.
Final ==
    /\ pc = "Final"
    /\ call.op = "generate_ad"
    /\ results' = Put(Put(results, "final_ad_script",
                          FinalScript(locals.review, locals.ad_script)),
                      "platform", PlatformOr(call.platform))
    /\ log' = log \o <<Stored("Final", "final_ad_script"),
                        Event("Final", "write", "final_ad_script",
                              PlatformOr(call.platform))>>
    /\ IF WriteFails(TRUE, call.disk)
       THEN pc' = "raised" /\ ret' = Failed("OSError")
       ELSE IF FinalScript(locals.review, locals.ad_script).t = "str"
       THEN pc' = After("Final") /\ UNCHANGED ret
       ELSE pc' = "raised" /\ ret' = Failed("TypeError")
    /\ UNCHANGED <<call, locals, faults>>

\* f"runbook_{platform}_{product_info['product_name'].replace(' ', '_').lower()}.md"
RunbookPath(platform, product_name) ==
    <<"runbook_", platform, "_">>
    \o Lower(Map(product_name, LAMBDA tok : IF tok = " " THEN "_" ELSE tok))
    \o <<".md">>

\* A record that reports the runbook as generated whatever save_runbook did.
runbook_record_hides_failure(saved, platform, product_name) ==
    [generated |-> TRUE, path |-> RunbookPath(platform, product_name)]

\* results["runbook"] after save_runbook has returned (saved) or raised.
RunbookRecord(saved, platform, product_name) ==
    IF saved THEN [generated |-> TRUE, path |-> RunbookPath(platform, product_name)]
    ELSE [generated |-> FALSE, error |-> "save_runbook failed"]

Runbook ==
    /\ pc = "Runbook"
    /\ call.op = "generate_ad"
    /\ call.generate_runbook
    /\ \E saved \in BOOLEAN :
          /\ results' = Put(results, "runbook",
                            RunbookRecord(saved, PlatformOr(call.platform),
                                          call.product_info.product_name))
          /\ log' = log \o <<Started("Runbook", ""),
                              Event("Runbook", "runbook", "save_runbook",
                                    IF saved THEN "returned" ELSE "raised"),
                              Stored("Runbook", "runbook")>>
    /\ pc' = After("Runbook")
    /\ UNCHANGED <<call, ret, locals, faults>>

NoRunbook ==
    /\ pc = "Runbook"
    /\ call.op = "generate_ad"
    /\ ~call.generate_runbook
    /\ results' = Put(results, "runbook",
                      [generated |-> FALSE,
                       reason |-> "Runbook generation disabled"])
    /\ log' = log \o <<Stored("Runbook", "runbook")>>
    /\ pc' = After("Runbook")
    /\ UNCHANGED <<call, ret, locals, faults>>

(***************************************************************************)
(* Runs of generate_ad: products holding the four required fields, every   *)
(* combination of the flags, platforms named, unnamed and unknown, the     *)
(* providers, and the collaborators of every world.                        *)
(***************************************************************************)
FullProduct ==
    [product_name |-> <<"FocusFlow">>,
     product_description |-> <<"focus", " ", "timer">>,
     target_audience |-> <<"students">>,
     campaign_goal |-> <<"signups">>,
     use_cases |-> <<"focus", " ", "sessions", ",", " ", "habits">>,
     niche |-> <<"productivity">>,
     keywords |-> <<"focus", ",", " ", "timer">>]

RunProducts == {SampleProduct, FullProduct}

RunPlatforms == {"", "tiktok", "podcast"}

RunProviders == {"openai", "groq"}

Init ==
    /\ pc = "Research"
    /\ call \in {[op |-> "generate_ad",
                  model_name |-> "",
                  agent |-> MakeAgent(p, ""),
                  keys |-> AllKeys,
                  product_info |-> product,
                  save_intermediates |-> save,
                  skip_reddit |-> skip,
                  platform |-> pl,
                  generate_runbook |-> rb,
                  disk |-> "ok",
                  world |-> w] :
                    p \in RunProviders, product \in RunProducts,
                    save \in BOOLEAN, skip \in BOOLEAN, pl \in RunPlatforms,
                    rb \in BOOLEAN, w \in Worlds}
    /\ ret = [out |-> Return(PyNone), response |-> <<>>, calls |-> <<>>]
    /\ results = NewResults(call)
    /\ locals = NoLocals
    /\ log = <<>>
    /\ faults = 0

Next ==
    \/ Research
    \/ DataCollection
    \/ SkipDataCollection
    \/ AnalyseData
    \/ Synthesize
    \/ Copywriting
    \/ Review
    \/ Final
    \/ Runbook
    \/ NoRunbook

Spec == Init /\ [][Next]_vars

(***************************************************************************)
(* Properties of the runs of generate_ad.                                  *)
(***************************************************************************)
InRun == call.op = "generate_ad"

Returned == InRun /\ pc = "done"

HasStage(key) == key \in DOMAIN results.stages

\* An agent operation was called; an artifact file was opened for writing.
Ran(operation) ==
    \E i \in 1..Len(log) : log[i].kind = "agent" /\ log[i].target = operation

Wrote(file) ==
    \E i \in 1..Len(log) : log[i].kind = "write" /\ log[i].target = file

\* A call that leaves the process: to an LLM backend, to the discussion
\* source, to the runbook generator.
External(e) == e.kind \in {"llm", "search", "runbook"}

StageNo ==
    [Research |-> 1, DataCollection |-> 2, Analysis |-> 3, Copywriting |-> 4,
     Review |-> 5, Final |-> 6, Runbook |-> 7]

\* The stage before a stage, and the key its record is stored under.
Previous ==
    [DataCollection |-> [stage |-> "Research", key |-> "research"],
     Analysis |-> [stage |-> "DataCollection", key |-> "data_collection"],
     Copywriting |-> [stage |-> "Analysis", key |-> "analysis"],
     Review |-> [stage |-> "Copywriting", key |-> "copywriting"],
     Runbook |-> [stage |-> "Review", key |-> "review"]]

StageRecords == {"research", "data_collection", "analysis", "copywriting", "review"}

\* C1: generate_ad always ends by returning, never by raising, and what it
\* returns holds the five stage records and a final_ad_script that is a
\* non-empty text, whatever the backends and the discussion source do.
C1_AlwaysReturnsComplete ==
    (InRun /\ pc \in {"done", "raised"}) =>
        /\ pc = "done"
        /\ StageRecords \subseteq DOMAIN results.stages
        /\ results["final_ad_script"].t = "str"
        /\ results["final_ad_script"].s # <<>>

\* C2: the stages start in the order Research, DataCollection, Analysis,
\* Copywriting, Review, Runbook: nothing of a stage happens after something
\* of a later stage, no stage starts twice, a stage starts only after the
\* stage before it has started, and every external call of a stage comes
\* after the store of the record of the stage before it.
C2_StagesInOrder ==
    InRun =>
        /\ \A i, j \in 1..Len(log) :
              i < j => /\ StageNo[log[i].stage] <= StageNo[log[j].stage]
                       /\ ~(/\ log[i].kind = "start"
                            /\ log[j].kind = "start"
                            /\ log[i].stage = log[j].stage)
        /\ \A j \in 1..Len(log) :
              (log[j].stage \in DOMAIN Previous
                  /\ (External(log[j]) \/ log[j].kind = "start")) =>
                 /\ \E i \in 1..(j - 1) :
                       /\ log[i].kind = "start"
                       /\ log[i].stage = Previous[log[j].stage].stage
                 /\ \E i \in 1..(j - 1) :
                       /\ log[i].kind = "store"
                       /\ log[i].target = Previous[log[j].stage].key

\* A returned run with all six stages, searches and backend calls made.
C2_Witness ==
    /\ Returned
    /\ \A stage \in {"Research", "DataCollection", "Analysis", "Copywriting",
                     "Review", "Runbook"} :
          \E i \in 1..Len(log) : log[i].kind = "start" /\ log[i].stage = stage
    /\ \E i \in 1..Len(log) : log[i].kind = "search"
    /\ \E i \in 1..Len(log) : log[i].kind = "runbook"

\* The branch of the Analysis stage: synthesize_insights_without_data is
\* used exactly when the post list handed over is empty, otherwise
\* filter_posts_by_relevance and then extract_key_insights on what the
\* filter returned, and never both paths.
AnalysisBranches ==
    /\ ~(/\ Ran("synthesize_insights_without_data")
         /\ (Ran("filter_posts_by_relevance") \/ Ran("extract_key_insights")))
    /\ Ran("synthesize_insights_without_data") => locals.posts_data = <<>>
    /\ Ran("filter_posts_by_relevance") => locals.posts_data # <<>>
    /\ Ran("extract_key_insights") =>
          \E i, j \in 1..Len(log) :
             /\ i < j
             /\ log[i].kind = "agent" /\ log[i].target = "filter_posts_by_relevance"
             /\ log[j].kind = "agent" /\ log[j].target = "extract_key_insights"
    /\ HasStage("analysis") =>
          IF locals.posts_data = <<>>
          THEN Ran("synthesize_insights_without_data")
          ELSE /\ Ran("extract_key_insights")
               /\ locals.analysed = locals.relevant_posts

\* The steps of the stages besides the branch of Analysis that follow from
\* the flags alone.
FlagsDecideOtherArtifacts ==
    /\ HasStage("research") =>
          (Wrote("stage1_research") <=> call.save_intermediates)
    /\ HasStage("analysis") =>
          (Wrote("stage3_analysis") <=> call.save_intermediates)
    /\ HasStage("copywriting") =>
          (Wrote("stage4_original_script") <=> call.save_intermediates)
    /\ HasStage("review") =>
          (Wrote("stage5_review") <=> call.save_intermediates)
    /\ Ran("collect_data") <=> (HasStage("data_collection") /\ ~call.skip_reddit)

\* C3 as stated: Analysis branches on the post list as described, and no
\* step of any other stage depends on the data: the flags alone decide
\* them, the write of the raw data of stage 2 included.
C3_OnlyAnalysisDependsOnData ==
    InRun =>
        /\ AnalysisBranches
        /\ FlagsDecideOtherArtifacts
        /\ HasStage("data_collection") =>
              (Wrote("stage2_raw_data") <=>
                  (call.save_intermediates /\ ~call.skip_reddit))

\* C3 amended: Analysis branches on the post list as described; besides,
\* the raw data of stage 2 are written only when the post list is not
\* empty, and the other steps follow from the flags.
C3_AnalysisAndRawDataDependOnData ==
    InRun =>
        /\ AnalysisBranches
        /\ FlagsDecideOtherArtifacts
        /\ HasStage("data_collection") =>
              (Wrote("stage2_raw_data") <=>
                  (call.save_intermediates /\ locals.posts_data # <<>>))

\* A returned run that collected no post although it searched, keeping the
\* intermediates: it synthesized, and wrote no raw data.
C3_Witness ==
    /\ Returned
    /\ call.save_intermediates
    /\ ~call.skip_reddit
    /\ locals.posts_data = <<>>
    /\ Ran("synthesize_insights_without_data")
    /\ ~Wrote("stage2_raw_data")
    /\ Wrote("stage3_analysis")

\* C4: with skip_reddit no search is issued and the data_collection record
\* is {posts_count: 0, skipped: true}; without it the record holds the
\* number of posts collect_data returned and no skipped flag.
C4_DataCollectionRecord ==
    InRun =>
        /\ call.skip_reddit =>
              /\ ~Ran("collect_data")
              /\ \A i \in 1..Len(log) : log[i].kind # "search"
        /\ HasStage("data_collection") =>
              IF call.skip_reddit
              THEN /\ DOMAIN results.stages["data_collection"]
                         = {"posts_count", "skipped"}
                   /\ results.stages["data_collection"].posts_count = 0
                   /\ results.stages["data_collection"].skipped = TRUE
              ELSE /\ DOMAIN results.stages["data_collection"] = {"posts_count"}
                   /\ results.stages["data_collection"].posts_count
                         = Len(locals.posts_data)

\* A returned run that searched and collected posts.
C4_Witness ==
    /\ Returned
    /\ ~call.skip_reddit
    /\ \E i \in 1..Len(log) : log[i].kind = "search"
    /\ Len(locals.posts_data) > 0
    /\ results.stages["data_collection"].posts_count = Len(locals.posts_data)

\* C7: in a returned result final_ad_script is the improved_script of the
\* review record of the same result.
C7_FinalIsImprovedScript ==
    Returned =>
        /\ "improved_script" \in DOMAIN results.stages["review"].d
        /\ results["final_ad_script"]
              = results.stages["review"].d["improved_script"]

\* A returned run whose review improved on the script of the copywriter.
C7_Witness ==
    /\ Returned
    /\ results["final_ad_script"] = PyStr(<<"better">>)
    /\ results.stages["copywriting"].original_script = <<"Try", " ", "FocusFlow">>

(***************************************************************************)
(* The operations of the AnalysisAgent on their own: the provider, the     *)
(* posts, the optional fields of the product and what the backends answer  *)
(* all vary.                                                               *)
(***************************************************************************)
\* A list of n collected posts.
AnalysisPosts(n) ==
    [i \in 1..n |-> PostData(<<FocusPost, AdvicePost, TimerPost>>[((i - 1) % 3) + 1])]

\* The sizes of the lists: none, one, two, and more than a batch holds.
PostCounts == {0, 1, 2, 11}

\* An evaluation list of one item.
Evaluation(post_index, relevance_score) ==
    <<"[", "{", "\"post_index\":", post_index, ",",
      "\"relevance_score\":", relevance_score, "}", "]">>

\* An evaluation list of two items.
TwoEvaluations(index1, score1, index2, score2) ==
    <<"[", "{", "\"post_index\":", index1, ",",
                "\"relevance_score\":", score1, "}", ",",
           "{", "\"post_index\":", index2, ",",
                "\"relevance_score\":", score2, "}", "]">>

\* Model outputs for the relevance prompt: nothing, prose, an empty list,
\* lists rating a post at 6 or more, a list rating none so, a rating of a
\* post outside the batch of a short list, items that are not objects, an
\* object instead of a list, a score that is not a number, a number, and
\* lists of two ratings: of two posts, of one post twice, in either order.
FilterAnswers ==
    { <<>>,
      <<"x">>,
      <<"[", "]">>,
      TwoEvaluations("0", "7", "1", "5"),
      TwoEvaluations("1", "9", "0", "7"),
      TwoEvaluations("0", "7", "0", "9"),
      Evaluation("0", "7"),
      Evaluation("1", "9"),
      Evaluation("0", "5"),
      Evaluation("9", "9"),
      <<"[", "7", "]">>,
      <<"{", "\"post_index\":", "0", ",", "\"relevance_score\":", "7", "}">>,
      <<"[", "{", "\"relevance_score\":", "\"s\"", "}", "]">>,
      <<"7">> }

\* Model outputs for the two insights prompts: nothing, prose, a full
\* payload, an empty object, an object without any of the four fields, one
\* with empty fields, one with a field of another type, and payloads that
\* are not objects.
InsightsAnswers ==
    { <<>>,
      <<"x">>,
      FullInsights,
      <<"{", "}">>,
      <<"{", "\"score\":", "9", "}">>,
      <<"{", "\"pain_points\":", "[", "]", ",", "\"insights\":", "\"\"", "}">>,
      <<"{", "\"pain_points\":", "7", ",", "\"insights\":", "7", "}">>,
      <<"[", "7", "]">>,
      <<"7">>,
      <<"\"s\"">>,
      <<"null">> }

\* The product with some of its optional fields left out.
ProductWithout(missing) ==
    [k \in (DOMAIN FullProduct) \ missing |-> FullProduct[k]]

OptionalFields == {"use_cases", "niche", "keywords"}

AnalysisProviders == Providers \cup {"mistral"}

BackendOutcomes(answers) ==
    {ClientError, ApiError} \cup {Completion(a) : a \in answers}

FallbackOutcomes(site) == {ApiError, Completion(Expected(site))}

AnalysisCall(op, p, n, product, o1, o2) ==
    [op |-> op, agent |-> MakeAgent(p, ""), keys |-> AllKeys,
     posts_data |-> AnalysisPosts(n), product_info |-> product,
     o1 |-> o1, o2 |-> o2]

InitAnalysis ==
    /\ pc = "start"
    /\ call \in
         {AnalysisCall("filter_posts_by_relevance", p, n, SampleProduct, o1, o2) :
            p \in AnalysisProviders, n \in PostCounts,
            o1 \in BackendOutcomes(FilterAnswers),
            o2 \in FallbackOutcomes("relevance")}
         \cup
         {AnalysisCall("extract_key_insights", p, n, SampleProduct, o1, o2) :
            p \in AnalysisProviders, n \in {0, 2},
            o1 \in BackendOutcomes(InsightsAnswers),
            o2 \in FallbackOutcomes("insights")}
         \cup
         {AnalysisCall("synthesize_insights_without_data", p, 0,
                       ProductWithout(missing), o1, o2) :
            p \in AnalysisProviders, missing \in SUBSET OptionalFields,
            o1 \in BackendOutcomes(InsightsAnswers),
            o2 \in FallbackOutcomes("synthesis")}
    /\ ret = [out |-> Return(PyNone), response |-> <<>>, calls |-> <<>>]
    /\ NoRun

FilterPosts ==
    /\ pc = "start"
    /\ call.op = "filter_posts_by_relevance"
    /\ ret' = filter_posts_by_relevance(call.agent, call.keys, call.posts_data,
                                        call.product_info, call.o1, call.o2)
    /\ pc' = "done"
    /\ UNCHANGED <<call, run>>

ExtractInsights ==
    /\ pc = "start"
    /\ call.op = "extract_key_insights"
    /\ ret' = extract_key_insights(call.agent, call.keys, call.posts_data,
                                   call.product_info, call.o1, call.o2)
    /\ pc' = "done"
    /\ UNCHANGED <<call, run>>

SynthesizeInsights ==
    /\ pc = "start"
    /\ call.op = "synthesize_insights_without_data"
    /\ ret' = synthesize_insights_without_data(call.agent, call.keys,
                                               call.product_info, call.o1, call.o2)
    /\ pc' = "done"
    /\ UNCHANGED <<call, run>>

NextAnalysis == FilterPosts \/ ExtractInsights \/ SynthesizeInsights

SpecAnalysis == InitAnalysis /\ [][NextAnalysis]_vars

\* An item of an evaluation list as the prompt asks for it.
IsEvaluation(item) ==
    /\ item.t = "dict"
    /\ {"post_index", "relevance_score"} \subseteq DOMAIN item.d
    /\ item.d["post_index"].t = "num"
    /\ item.d["relevance_score"].t = "num"

\* The payload is a list of evaluations that rates a post of a batch of n
\* posts at 6 or above.
RatesAPost(payload, n) ==
    /\ payload.t = "list"
    /\ \A i \in 1..Len(payload.l) : IsEvaluation(payload.l[i])
    /\ \E i \in 1..Len(payload.l) :
          /\ payload.l[i].d["relevance_score"].n >= 6
          /\ payload.l[i].d["post_index"].n >= 0
          /\ payload.l[i].d["post_index"].n < n

\* The configured backend has answered the relevance prompt for a non-empty
\* list of posts, and its answer is empty, malformed or rates no post of
\* the batch at 6 or above.
NothingQualifies ==
    /\ call.op = "filter_posts_by_relevance"
    /\ call.posts_data # <<>>
    /\ call.o1.ok
    /\ ~RatesAPost(PayloadOf(call.o1.text), Len(Take(call.posts_data, 10)))

\* C11: for every provider, when the model's evaluation of a non-empty post
\* list is empty, malformed or rates no post at 6 or above,
\* filter_posts_by_relevance returns, without raising, exactly the
\* evaluated batch: the first min(10, n) posts in input order.
C11_FilterFailsOpen ==
    (pc = "done" /\ NothingQualifies) =>
        ret.out = Return(Take(call.posts_data, 10))

\* The four fields of an Insights record are present and non-empty.
Populated(insights) ==
    /\ insights.t = "dict"
    /\ \A key \in {"pain_points", "language", "topics", "insights"} :
          key \in DOMAIN insights.d /\ Truthy(insights.d[key])

\* C14: every Insights record the AnalysisAgent returns, from
\* extract_key_insights and from synthesize_insights_without_data, has the
\* four fields pain_points, language, topics and insights present and
\* non-empty, whatever the model has answered.
C14_InsightsPopulated ==
    (/\ pc = "done"
     /\ call.op \in {"extract_key_insights", "synthesize_insights_without_data"}
     /\ ret.out.kind = "return") =>
        Populated(ret.out.value)

\* The lists of an Insights record are non-empty lists and its text is a
\* non-empty string.
WellTyped(insights) ==
    /\ Populated(insights)
    /\ \A key \in {"pain_points", "language", "topics"} :
          insights.d[key].t = "list"
    /\ insights.d["insights"].t = "str"

\* C15: for every product with any of the optional fields use_cases, niche
\* and keywords missing and for every model output,
\* synthesize_insights_without_data returns, without raising, an Insights
\* record with non-empty lists pain_points, language and topics and a
\* non-empty string insights.
C15_SynthesisAlwaysPopulated ==
    (pc = "done" /\ call.op = "synthesize_insights_without_data") =>
        /\ ret.out.kind = "return"
        /\ WellTyped(ret.out.value)

(***************************************************************************)
(* The operations of the DataCollectionAgent on their own: lists of names  *)
(* that are valid, too short, empty, or hold a space, a '/' or a '<', and  *)
(* queries that are long enough or not.                                    *)
(***************************************************************************)
SourceNames ==
    { <<>>, <<"a">>, <<"ab">>, <<"my", " ", "sub">>, <<"r/", "productivity">>,
      <<"<", "tag">>, <<"productivity">>, <<"AskReddit">> }

SearchQueries ==
    { <<"focus", " ", "timer">>, <<"ab">>, <<"\"", "ab", "\"">> }

QueryLists ==
    { << <<"focus", " ", "timer">> >>,
      << <<"\"", "ab", "\"">>, <<"focus", " ", "timer">> >>,
      << <<"\"", "ab", "\"">> >>,
      << <<"ab">> >> }

MaxNames == 2       \* longest list of names given to collect_data

InitCollect ==
    /\ pc = "start"
    /\ call \in
         {[op |-> "collect_data", forum |-> forum, subreddits |-> names,
           queries |-> queries] :
            forum \in Forums, names \in SeqsUpTo(SourceNames, MaxNames),
            queries \in QueryLists}
         \cup
         {[op |-> "search_subreddit", forum |-> forum, subreddits |-> <<name>>,
           queries |-> <<query>>] :
            forum \in Forums, name \in SourceNames, query \in SearchQueries}
    /\ ret = [posts |-> <<>>, searches |-> <<>>]
    /\ NoRun

CollectData ==
    /\ pc = "start"
    /\ call.op = "collect_data"
    /\ ret' = collect_data(call.forum, call.subreddits, call.queries,
                           PostsPerQuery)
    /\ pc' = "done"
    /\ UNCHANGED <<call, run>>

\* One search, with the limit at its default.
SearchSubreddit ==
    /\ pc = "start"
    /\ call.op = "search_subreddit"
    /\ ret' = SearchPairs(call.forum, Pairs(call.subreddits, call.queries), 3)
    /\ pc' = "done"
    /\ UNCHANGED <<call, run>>

NextCollect == CollectData \/ SearchSubreddit

SpecCollect == InitCollect /\ [][NextCollect]_vars

\* A name is invalid: empty, shorter than 3 characters, or holding a space
\* or a '/'.
InvalidName(name) ==
    \/ name = <<>>
    \/ CharLen(name) < 3
    \/ HasSpace(name)
    \/ HasSlash(name)

\* No search was issued for an invalid name; a search of an invalid name
\* has found nothing.
InvalidNeverSearched ==
    /\ \A i \in 1..Len(ret.searches) : ~InvalidName(ret.searches[i].subreddit)
    /\ (call.op = "search_subreddit" /\ InvalidName(call.subreddits[1])) =>
          ret = [posts |-> <<>>, searches |-> <<>>]

\* A query collect_data keeps and search_subreddit accepts: longer than 3
\* characters, and at least 3 characters long with its quotes removed.
UsableQuery(query) == CharLen(query) > 3 /\ CharLen(CleanQuery(query)) >= 3

\* The name, lower-cased, was searched with every usable query of the call.
SearchedWithAll(name) ==
    \A j \in 1..Len(call.queries) :
        UsableQuery(call.queries[j]) =>
            \E i \in 1..Len(ret.searches) :
                ret.searches[i] = [subreddit |-> Lower(Strip(name)),
                                   query |-> CleanQuery(call.queries[j])]

PlatformTags == Platforms \cup {"", "unknown_value", "TikTok", "linkedin"}

PlatformAnswers(op) ==
    IF op = "generate_ad_script"
    THEN {<<>>, <<"x">>, Expected("copywriting")}
    ELSE {<<>>, <<"x">>, Expected("review")}

InitPlatform ==
    /\ pc = "start"
    /\ call \in {[op |-> op, agent |-> MakeAgent(p, ""), keys |-> AllKeys,
                  ad_script |-> <<"Try", " ", "FocusFlow">>, platform |-> pl] :
                    op \in {"generate_ad_script", "review_ad_script"},
                    p \in Providers, pl \in PlatformTags}
    /\ ret = [out |-> Return(PyNone), response |-> <<>>, calls |-> <<>>,
              block |-> Return(PyNone)]
    /\ NoRun

\* The outcome of an operation whose prompt is built with the block: the
\* operation ends where the block cannot be had.
WithBlock(block, result) ==
    [out |-> IF block.kind = "raise" THEN block ELSE result.out,
     response |-> IF block.kind = "raise" THEN <<>> ELSE result.response,
     calls |-> IF block.kind = "raise" THEN <<>> ELSE result.calls,
     block |-> block]

WriteForPlatform ==
    /\ pc = "start"
    /\ call.op = "generate_ad_script"
    /\ \E o1 \in BackendOutcomes(PlatformAnswers(call.op)),
          o2 \in FallbackOutcomes("copywriting") :
          ret' = WithBlock(InstructionBlock(call.platform),
                           generate_ad_script(call.agent, call.keys,
                               SampleInsights, SampleProduct, call.platform,
                               o1, o2))
    /\ pc' = "done"
    /\ UNCHANGED <<call, run>>

ReviewForPlatform ==
    /\ pc = "start"
    /\ call.op = "review_ad_script"
    /\ \E o1 \in BackendOutcomes(PlatformAnswers(call.op)),
          o2 \in FallbackOutcomes("review") :
          ret' = WithBlock(CriteriaBlock(call.platform),
                           review_ad_script(call.agent, call.keys,
                               call.ad_script, SampleProduct, SampleInsights,
                               call.platform, o1, o2))
    /\ pc' = "done"
    /\ UNCHANGED <<call, run>>

NextPlatform == WriteForPlatform \/ ReviewForPlatform

SpecPlatform == InitPlatform /\ [][NextPlatform]_vars

\* The platform whose block the claim expects for a tag.
BlockPlatform(tag) ==
    IF tag \in {"general", "instagram", "youtube", "video", "tiktok", "facebook"}
    THEN tag ELSE "general"

\* C13: for a platform tag outside the six known ones generate_ad_script and
\* review_ad_script select the "general" instruction and criteria block and
\* do not raise; a known tag always selects its own block.  The Review
\* carries the platform whose block was selected.
C13_UnknownPlatformIsGeneral ==
    pc = "done" =>
        /\ ret.out.kind = "return"
        /\ call.op = "generate_ad_script" =>
              ret.block = Return([block |-> "instructions",
                                  platform |-> BlockPlatform(call.platform)])
        /\ call.op = "review_ad_script" =>
              /\ ret.block = Return([block |-> "criteria",
                                     platform |-> BlockPlatform(call.platform)])
              /\ ret.out.value.d["platform"]
                    = PyStr(<<BlockPlatform(call.platform)>>)

\* A script was written for the tag "unknown_value" with the general
\* instructions.
C13_Witness ==
    /\ pc = "done"
    /\ call.op = "generate_ad_script"
    /\ call.platform = "unknown_value"
    /\ ret.block = Return(platform_instructions["general"])
    /\ ret.out = Return(PyStr(<<"Try", " ", "FocusFlow">>))

(***************************************************************************)
(* The backend adapters and generate_llm_response on their own: the        *)
(* provider, the credentials at hand, the kind of prompt and what the      *)
(* backends do all vary.                                                   *)
(***************************************************************************)
\* What openai_generator.generate_ad_script returns in streaming mode: the
\* payload if one is found and is a true value, else the stripped content.
StreamResult(expects_json, content) ==
    IF /\ expects_json
       /\ Truthy(extract_json_from_llm_response(content, PyNone).value)
    THEN Return(extract_json_from_llm_response(content, PyNone).value)
    ELSE Return(PyStr(Strip(content)))

\* openai_generator.generate_ad_script.  expects_json is assigned first in
\* the try block, before the client is built.
openai_generate_ad_script(keys, expects_json, stream, o) ==
    IF KeyMissing(keys, "openai") THEN Raise("ValueError")
    ELSE IF ~o.ok THEN
        IF expects_json THEN Return(SafeDefaultObject(o.err)) ELSE Raise(o.err)
    ELSE IF stream THEN StreamResult(expects_json, o.text)
    ELSE GroqResult(expects_json, Strip(o.text))

BackendAnswers ==
    { <<>>, <<"x">>, <<" ", "x", " ">>, ImprovedObject,
      <<"x", " ">> \o ImprovedObject, <<"{", "}">> }

KeySets == {AllKeys, {"openai"}, {"claude", "groq"}, {}}

\* A call of the generate_ad_script of a provider's adapter.
AdapterCall(p, keys, expects_json, stream, o1) ==
    [op |-> "generate_ad_script", agent |-> MakeAgent(p, ""),
     keys |-> keys, expects_json |-> expects_json, site |-> "",
     stream |-> stream, o1 |-> o1, o2 |-> ApiError]

InitBackend ==
    /\ pc = "start"
    /\ call \in
         {[op |-> "generate_llm_response", agent |-> MakeAgent(p, m),
           keys |-> keys, expects_json |-> ExpectsJson(site), site |-> site,
           stream |-> FALSE, o1 |-> o1, o2 |-> o2] :
            p \in Providers \cup {"mistral"}, m \in {"", "custom"},
            keys \in KeySets, site \in {"copywriting", "review"},
            o1 \in BackendOutcomes(BackendAnswers),
            o2 \in {ClientError, ApiError, Completion(<<" ", "y">>)}}
         \cup
         {AdapterCall("openai", keys, expects_json, stream, o1) :
            keys \in {AllKeys, {}}, expects_json \in BOOLEAN,
            stream \in BOOLEAN, o1 \in BackendOutcomes(BackendAnswers)}
         \cup
         {AdapterCall("groq", keys, expects_json, stream, o1) :
            keys \in {AllKeys, {}}, expects_json \in BOOLEAN,
            stream \in BOOLEAN, o1 \in BackendOutcomes(BackendAnswers)}
    /\ ret = [out |-> Return(PyNone), calls |-> <<>>]
    /\ NoRun

\* The text generate_llm_response has returned, with the adapter calls made.
Responded(llm) == [out |-> Return(PyStr(llm.text)), calls |-> llm.calls]

GenerateResponse ==
    /\ pc = "start"
    /\ call.op = "generate_llm_response"
    /\ ret' = Responded(generate_llm_response(call.agent, call.keys, call.site,
                                              call.o1, call.o2))
    /\ pc' = "done"
    /\ UNCHANGED <<call, run>>

\* The adapter of Groq called with a model name, as the agents call it.
GroqAdapter ==
    /\ pc = "start"
    /\ call.op = "generate_ad_script"
    /\ call.agent.llm_provider = "groq"
    /\ ret' = [out |-> IF call.stream
                       THEN groq_generate_ad_script_streaming(
                                call.keys, call.expects_json, call.o1)
                       ELSE groq_generate_ad_script(
                                call.keys, call.expects_json, call.o1),
               calls |-> <<>>]
    /\ pc' = "done"
    /\ UNCHANGED <<call, run>>

OpenAIAdapter ==
    /\ pc = "start"
    /\ call.op = "generate_ad_script"
    /\ call.agent.llm_provider = "openai"
    /\ ret' = [out |-> openai_generate_ad_script(call.keys, call.expects_json,
                                                 call.stream, call.o1),
               calls |-> <<>>]
    /\ pc' = "done"
    /\ UNCHANGED <<call, run>>

NextBackend == GenerateResponse \/ GroqAdapter \/ OpenAIAdapter

SpecBackend == InitBackend /\ [][NextBackend]_vars

\* The provider an agent's generate_llm_response turns to first.
ConfiguredProvider ==
    IF call.agent.llm_provider \in {"openai", "claude", "groq"}
    THEN call.agent.llm_provider ELSE "openai"

\* The call of the configured backend raises: its credential is missing,
\* its client cannot be built or its API call fails.
ConfiguredRaises == ConfiguredProvider \notin call.keys \/ ~call.o1.ok

\* The call of the default backend raises.
DefaultRaises == "openai" \notin call.keys \/ ~call.o2.ok

ErrorNames ==
    {"ValueError", "APIError", "ClientError", "UnboundLocalError", "TypeError"}

\* C16: generate_llm_response never raises: it returns a string after at
\* most two backend calls, the first to the configured backend.  When that
\* call raises it makes exactly one further call, to OpenAI with gpt-4o,
\* and if that call raises too the string returned carries the error
\* message.
C16_FallsBackOnce ==
    (pc = "done" /\ call.op = "generate_llm_response") =>
        /\ ret.out.kind = "return"
        /\ ret.out.value.t = "str"
        /\ Len(ret.calls) \in {1, 2}
        /\ ret.calls[1].target = ConfiguredProvider
        /\ Len(ret.calls) = 2 =>
              ret.calls[2] = [kind |-> "llm", target |-> "openai", arg |-> "gpt-4o"]
        /\ ConfiguredRaises => Len(ret.calls) = 2
        /\ (ConfiguredRaises /\ DefaultRaises) =>
              \E e \in ErrorNames :
                  ret.out.value.s = <<"Error", " ", "generating", " ",
                                      "response", ":", " ", e>>
        /\ (ConfiguredRaises /\ ~DefaultRaises) =>
              ret.out.value.s = _clean_llm_response(Strip(call.o2.text))

\* The API call of Groq has failed, so has the one of OpenAI, and the text
\* returned names the first error.
C16_Witness ==
    /\ pc = "done"
    /\ call.op = "generate_llm_response"
    /\ call.agent.llm_provider = "groq"
    /\ call.keys = AllKeys
    /\ call.o1 = ApiError
    /\ call.o2 = ClientError
    /\ call.site = "copywriting"
    /\ ret.calls = <<[kind |-> "llm", target |-> "groq", arg |-> GROQ_DEFAULT_MODEL],
                     [kind |-> "llm", target |-> "openai", arg |-> "gpt-4o"]>>
    /\ ret.out = Return(PyStr(<<"Error", " ", "generating", " ", "response",
                                ":", " ", "APIError">>))

\* C17: an adapter's generate_ad_script whose client cannot be built or
\* whose completion call fails returns, for a prompt with a JSON trigger
\* phrase, the safe-default object with score 5 and the error message in
\* platform_specific_feedback, and re-raises the failure for a prompt
\* without one.
C17_AdapterAbsorbsFailure ==
    (/\ pc = "done"
     /\ call.op = "generate_ad_script"
     /\ call.agent.llm_provider \in call.keys
     /\ ~call.o1.ok) =>
        IF call.expects_json
        THEN /\ ret.out.kind = "return"
             /\ ret.out.value.t = "dict"
             /\ ret.out.value.d["score"] = PyNum(5)
             /\ ret.out.value.d["platform_specific_feedback"]
                   = PyStr(<<"Error", ":", " ", call.o1.err>>)
        ELSE ret.out = Raise(call.o1.err)

(***************************************************************************)
(* Runs of generate_ad in every deployment: the credentials at hand are    *)
(* all three, the one of OpenAI only, the one of Groq only, or none, and   *)
(* the working directory can be written or not.  generate_ad is called as  *)
(* the API handler and the command line call it, on an orchestrator built  *)
(* for the selected provider; neither the constructor nor generate_ad      *)
(* reads a credential before the first agent call.                         *)
(***************************************************************************)
Credentials == {AllKeys, {"openai"}, {"groq"}, {}}

Disks == {"ok", "readonly"}

DeployPlatforms == {"", "tiktok"}

InitDeployment ==
    /\ pc = "Research"
    /\ call \in {[op |-> "generate_ad",
                  model_name |-> "",
                  agent |-> MakeAgent(p, ""),
                  keys |-> keys,
                  product_info |-> SampleProduct,
                  save_intermediates |-> save,
                  skip_reddit |-> skip,
                  platform |-> pl,
                  generate_runbook |-> rb,
                  disk |-> disk,
                  world |-> w] :
                    p \in RunProviders, keys \in Credentials,
                    save \in BOOLEAN, skip \in BOOLEAN, pl \in DeployPlatforms,
                    rb \in BOOLEAN, disk \in Disks, w \in Worlds}
    /\ ret = [out |-> Return(PyNone), response |-> <<>>, calls |-> <<>>]
    /\ results = NewResults(call)
    /\ locals = NoLocals
    /\ log = <<>>
    /\ faults = 0

SpecDeployment == InitDeployment /\ [][Next]_vars

\* The credential of the provider the orchestrator was built for is missing.
CredentialMissing == InRun /\ KeyMissing(call.keys, call.agent.llm_provider)

\* C18: with the credential of the selected provider missing, generate_ad
\* fails with a configuration error before the Research stage makes any
\* progress: no stage record is ever produced, the call never returns, and
\* what it raises is the configuration error.
C18_MissingCredentialFailsFirst ==
    CredentialMissing =>
        /\ DOMAIN results.stages = {}
        /\ pc # "done"
        /\ pc = "raised" => ret.out.exc = "ValueError"

\* save_runbook was called and raised.
RunbookRaised(events) ==
    \E i \in 1..Len(events) :
        events[i].kind = "runbook" /\ events[i].arg = "raised"

RunbookCalled(events) ==
    \E i \in 1..Len(events) : events[i].kind = "runbook"

\* C19: the runbook step always ends generate_ad by returning and leaves the
\* stage records and final_ad_script as they were; when save_runbook raised,
\* runbook is {generated: false, error: message}; when generate_runbook is
\* unset, save_runbook is not called and runbook.generated is false.
C19_RunbookNeverAborts ==
    [][(InRun /\ pc = "Runbook") =>
          /\ pc' = "done"
          /\ results'.stages = results.stages
          /\ StageRecords \subseteq DOMAIN results'.stages
          /\ results'["final_ad_script"] = results["final_ad_script"]
          /\ RunbookRaised(log') =>
                results'["runbook"] = [generated |-> FALSE,
                                       error |-> "save_runbook failed"]
          /\ ~call.generate_runbook =>
                /\ ~RunbookCalled(log')
                /\ results'["runbook"].generated = FALSE]_vars

C19_Witness ==
    /\ Returned
    /\ call.generate_runbook
    /\ RunbookRaised(log)
    /\ results["runbook"].generated = FALSE
    /\ "error" \in DOMAIN results["runbook"]

\* C20: no failure of an artifact write aborts generate_ad: the call never
\* ends by raising the error of a write.
C20_WriteFailureDoesNotAbort ==
    ~(InRun /\ pc = "raised" /\ ret.out.exc = "OSError")

(***************************************************************************)
(* The platform named in the parts of a returned result.                   *)
(***************************************************************************)
ReviewPlatform == results.stages["review"].d["platform"]

\* C30: in every result generate_ad returns, the top-level platform,
\* configuration.platform, the platform of the copywriting record and the
\* platform of the review record are the same value, for a known, an unknown
\* and an empty platform argument.
C30_PlatformAgrees ==
    Returned =>
        /\ results.configuration.platform = results["platform"]
        /\ results.stages["copywriting"].platform = results["platform"]
        /\ ReviewPlatform = PyStr(PlatformText(results["platform"]))

(***************************************************************************)
(* The configured backend answers.                                         *)
(***************************************************************************)
\* The calls and the text of a response that took the configured backend's
\* answer and nothing else.
ConfiguredAnswerOnly ==
    /\ ret.calls = <<ConfiguredBackend(call.agent)>>
    /\ ret.out = Return(PyStr(_clean_llm_response(call.o1.text)))

\* C28: whenever the configured backend answers successfully, for every
\* provider tag and for prompts with and without a JSON trigger phrase,
\* generate_llm_response makes exactly one backend call, to the configured
\* provider and model, and returns the cleaned text of that answer.
C28_DefaultOnlyAfterFailure ==
    (pc = "done" /\ call.op = "generate_llm_response" /\ ~ConfiguredRaises)
        => ConfiguredAnswerOnly

\* The same for every agent but one of Groq given a prompt with a JSON
\* trigger phrase.
OneCallExceptGroqJson ==
    (/\ pc = "done"
     /\ call.op = "generate_llm_response"
     /\ ~ConfiguredRaises
     /\ ~(call.agent.llm_provider = "groq" /\ call.expects_json))
        => ConfiguredAnswerOnly

(***************************************************************************)
(* An adapter called with and without streaming.                           *)
(***************************************************************************)
\* What the adapter of the call returns for the same prompt and the same
\* complete backend text with stream=False.
WithoutStreaming ==
    IF call.agent.llm_provider = "groq"
    THEN groq_generate_ad_script(call.keys, call.expects_json, call.o1)
    ELSE openai_generate_ad_script(call.keys, call.expects_json, FALSE, call.o1)

\* A streaming call of an adapter whose backend has answered.
StreamedAnswer ==
    /\ pc = "done"
    /\ call.op = "generate_ad_script"
    /\ call.stream
    /\ call.keys = AllKeys
    /\ call.o1.ok

\* The shape of what an adapter returns.
Shape(out) == IF out.kind = "raise" THEN "raise" ELSE out.value.t

\* C24: for the same prompt and the same complete backend text an adapter
\* returns with stream=true a value of the same shape as with stream=false:
\* a string for a plain prompt, and for a prompt with a JSON trigger phrase
\* the extracted payload or, when the extraction yields nothing, the same
\* fallback object.
C24_StreamingKeepsShape ==
    StreamedAnswer =>
        /\ Shape(ret.out) = Shape(WithoutStreaming)
        /\ ~call.expects_json => Shape(ret.out) = "str"
        /\ call.expects_json => ret.out = WithoutStreaming

\* The same for the adapter of Groq alone.
GroqStreamingKeepsShape ==
    (StreamedAnswer /\ call.agent.llm_provider = "groq") =>
        /\ ~call.expects_json => Shape(ret.out) = "str"
        /\ ret.out = WithoutStreaming

(***************************************************************************)
(* Extracting a payload from a response that holds one: objects and        *)
(* arrays, flat and nested, alone, inside prose and inside a fenced block. *)
(***************************************************************************)
FlatObject == <<"{", "\"k\":", "\"s\"", "}">>

Payloads ==
    { <<>>, <<"7">>, FlatObject,
      <<"{", "x", "}">>,
      <<"{", "\"k\":", "{", "\"k\":", "\"s\"", "}", "}">>,
      <<"{", "\"k\":", "{", "}", ",", "\"score\":", "7", "}">>,
      <<"{", "\"k\":", "[", "\"s\"", "]", "}">>,
      <<"[", "\"s\"", "]">>,
      <<"[", "[", "\"s\"", "]", ",", "7", "]">>,
      <<"[", "{", "\"k\":", "\"\"", "}", ",">> \o FlatObject \o <<"]">>,
      <<"{", "x", "}", " ">> \o FlatObject,
      FlatObject \o <<" ", "[", "7", "]">> }

ProseBefore == {<<>>, <<"x", " ">>}
ProseAfter == {<<>>, <<" ", "x">>}
Fencing == {"none", "plain", "json"}

Fenced(fencing, payload) ==
    CASE fencing = "none"  -> payload
      [] fencing = "plain" -> <<Fence>> \o payload \o <<Fence>>
      [] fencing = "json"  -> <<Fence, "json", " ">> \o payload \o <<" ", Fence>>

InitExtract ==
    /\ pc = "start"
    /\ call \in {[op |-> "extract_json_from_llm_response",
                  response |-> before \o Fenced(f, payload) \o after,
                  default_value |-> d] :
                    before \in ProseBefore, f \in Fencing, payload \in Payloads,
                    after \in ProseAfter, d \in JsonDefaults}
    /\ ret = Return(PyNone)
    /\ NoRun

SpecExtract == InitExtract /\ [][NextJson]_vars

\* The nesting depth of open ... close brackets after each token of a text.
RECURSIVE DepthAfter(_, _, _, _)
DepthAfter(t, n, open, close) ==
    IF n = 0 THEN 0
    ELSE DepthAfter(t, n - 1, open, close)
         + (IF t[n] = open THEN 1 ELSE IF t[n] = close THEN -1 ELSE 0)

\* A text that starts with an opening bracket which its last token closes.
Balanced(t, open, close) ==
    /\ t # <<>>
    /\ t[1] = open
    /\ DepthAfter(t, Len(t), open, close) = 0
    /\ \A n \in 1..(Len(t) - 1) : DepthAfter(t, n, open, close) > 0

\* The balanced substrings of a text, left to right.
BalancedSubstrings(s, open, close) ==
    LET spans == {<<i, j>> \in (1..Len(s)) \X (1..Len(s)) :
                     i <= j /\ Balanced(SubSeq(s, i, j), open, close)}
        RECURSIVE InOrder(_)
        InOrder(left) ==
            IF left = {} THEN <<>>
            ELSE LET first == CHOOSE p \in left :
                                 \A q \in left : p[1] < q[1] \/ (p[1] = q[1] /\ p[2] <= q[2])
                 IN  <<SubSeq(s, first[1], first[2])>> \o InOrder(left \ {first})
    IN  InOrder(spans)

\* The strategies as stated: the whole text, the fenced blocks, the balanced
\* {...} substrings longest first, the balanced [...] substrings longest
\* first; the first that parses decides.
StatedMethod(response) ==
    FirstOk(WholeText(response),
      FirstOk(FromCodeBlock(response),
        FirstOk(FirstLoadable(SortedByLenDesc(BalancedSubstrings(response, "{", "}"))),
                FirstLoadable(SortedByLenDesc(BalancedSubstrings(response, "[", "]"))))))

ExtractionDone == pc = "done" /\ call.op = "extract_json_from_llm_response"

\* C23: extract_json_from_llm_response returns the result of the first
\* strategy that succeeds, in the order whole text, fenced code blocks,
\* longest balanced {...} substring, longest balanced [...] substring, and
\* the default when none does: prose around one balanced object with a
\* nested object yields that object, and prose around an array of objects is
\* resolved by the object strategy.
C23_FirstBalancedStrategy ==
    ExtractionDone =>
        ret = ResultOr(StatedMethod(call.response), call.default_value)

\* The same for the responses in which no bracket stands inside another
\* pair of its own kind.
NotNested(s, open, close) ==
    \A n \in 0..Len(s) : DepthAfter(s, n, open, close) \in {0, 1}

FirstStrategyWithoutNesting ==
    (/\ ExtractionDone
     /\ NotNested(call.response, "{", "}")
     /\ NotNested(call.response, "[", "]"))
        => ret = ResultOr(StatedMethod(call.response), call.default_value)

(***************************************************************************)
(* Generating search queries from what the model answers: words, commas,   *)
(* blanks and double quotes in every arrangement up to MaxAnswerLen        *)
(* tokens.                                                                 *)
(***************************************************************************)
MaxAnswerLen == 4       \* longest model answer given to generate_search_queries

AnswerAlphabet == {"\"", ",", " ", "ab", "focus", "timer"}

InitQueries ==
    /\ pc = "start"
    /\ call \in {[op |-> "generate_search_queries",
                  agent |-> MakeAgent(p, ""),
                  keys |-> AllKeys,
                  product_info |-> SampleProduct,
                  o1 |-> Completion(answer),
                  o2 |-> ApiError] :
                    p \in {"openai", "claude"},
                    answer \in SeqsUpTo(AnswerAlphabet, MaxAnswerLen)}
    /\ ret = [out |-> Return(PyNone), response |-> <<>>, calls |-> <<>>]
    /\ NoRun

GenerateQueries ==
    /\ pc = "start"
    /\ call.op = "generate_search_queries"
    /\ ret' = generate_search_queries(call.agent, call.keys, call.product_info,
                                      call.o1, call.o2)
    /\ pc' = "done"
    /\ UNCHANGED <<call, run>>

NextQueries == GenerateQueries

SpecQueries == InitQueries /\ [][NextQueries]_vars

\* The queries returned are the ones parsed from the model's answer, not the
\* ones made up from the product description.
QueriesParsed ==
    /\ pc = "done"
    /\ call.op = "generate_search_queries"
    /\ ParsedQueries(ret.response) # <<>>

HasQuote(q) == \E i \in 1..Len(q) : q[i] = "\""

\* C27: every query generate_search_queries returns from a parsed model
\* response has at least 6 characters and contains no double quote.
C27_QueriesLongAndUnquoted ==
    QueriesParsed =>
        \A i \in 1..Len(ret.out.value) :
            /\ CharLen(ret.out.value[i]) >= 6
            /\ ~HasQuote(ret.out.value[i])

\* The part about the quotes alone.
QueriesUnquoted ==
    QueriesParsed =>
        \A i \in 1..Len(ret.out.value) : ~HasQuote(ret.out.value[i])

(***************************************************************************)
(* The posts kept by filter_posts_by_relevance.                            *)
(***************************************************************************)
\* The evaluation list the filter has worked on: what the structured call
\* of OpenAI returned, made a list, or the payload of the response text.
EvaluationList ==
    IF call.agent.llm_provider = "openai"
    THEN AsList(generate_structured_data(call.keys, ExpectedEvaluations,
                                         call.o1).value)
    ELSE extract_json_from_llm_response(ret.response, PyList(<<>>)).value

FilterBatch == Take(call.posts_data, 10)

\* The positions of the batch posts that an evaluation rates at 6 or more.
RatedRelevant ==
    {k \in 1..Len(FilterBatch) :
        \E i \in 1..Len(EvaluationList.l) :
            /\ EvaluationList.l[i].d["relevance_score"].n >= 6
            /\ EvaluationList.l[i].d["post_index"].n = k - 1}

\* The filter has returned for a list of evaluations of which one at least
\* rates a post of the batch at 6 or more.
FilteredByScore ==
    /\ pc = "done"
    /\ call.op = "filter_posts_by_relevance"
    /\ call.posts_data # <<>>
    /\ ~(call.agent.llm_provider = "openai" /\ ~call.o1.ok)
    /\ RatesAPost(EvaluationList, Len(FilterBatch))

\* C29: when the evaluation list holds an entry with relevance_score 6 or
\* more and an in-range post_index, filter_posts_by_relevance returns
\* exactly the batch posts rated 6 or more, each of them once: the result
\* is never longer than the batch.
C29_ExactlyTheRelevantPosts ==
    FilteredByScore =>
        /\ ret.out.kind = "return"
        /\ \A i \in 1..Len(ret.out.value) :
              \E k \in RatedRelevant : ret.out.value[i] = FilterBatch[k]
        /\ \A k \in RatedRelevant :
              \E i \in 1..Len(ret.out.value) : ret.out.value[i] = FilterBatch[k]
        /\ Len(ret.out.value) = Cardinality(RatedRelevant)
        /\ Len(ret.out.value) <= Len(FilterBatch)

\* The same without the count: the posts returned are the posts rated 6 or
\* more, whatever the number of times each is returned.
RelevantPostsAsASet ==
    FilteredByScore =>
        /\ ret.out.kind = "return"
        /\ \A i \in 1..Len(ret.out.value) :
              \E k \in RatedRelevant : ret.out.value[i] = FilterBatch[k]
        /\ \A k \in RatedRelevant :
              \E i \in 1..Len(ret.out.value) : ret.out.value[i] = FilterBatch[k]

(***************************************************************************)
(* The rounds of searches of collect_data.                                 *)
(***************************************************************************)
\* The names and the queries collect_data searches with.
Sources == OrIfEmpty(CleanSubreddits(call.subreddits), DefaultSubreddits)

Queries == OrIfEmpty(CleanQueries(call.queries), DefaultQueries)

\* The posts a pair contributes: the first posts_per_query at most that its
\* search has yielded before it ended or raised.
PairPosts(pair, limit) ==
    Map(Take(Yielded(call.forum, pair.subreddit, pair.query), limit), PostData)

\* The pairs of a valid source and a valid query, in source-major order,
\* one for every place of the source and of the query in their lists.
ValidPairs(subreddits, queries) ==
    SelectSeq(Flatten([i \in 1..Len(subreddits) |->
                          [j \in 1..Len(queries) |->
                              [subreddit |-> subreddits[i],
                               query |-> queries[j]]]]),
              LAMBDA p : ~InvalidName(p.subreddit) /\ CharLen(p.query) >= 3)

CrossProduct == ValidPairs(Sources, Queries)

RetryPairs == ValidPairs(Take(Sources, 3), FallbackQueryList)

Collected_ == pc = "done" /\ call.op = "collect_data"

\* The cross-product has yielded no post although a search of it was
\* answered by the source without an error.
NothingFoundButAnswered ==
    /\ Collected_
    /\ \A i \in 1..Len(CrossProduct) : PairPosts(CrossProduct[i], PostsPerQuery) = <<>>
    /\ CrossProduct # <<>>
    /\ ~SearchRaises(call.forum)

\* C25: when the full cross-product of sources and queries has yielded no
\* post although at least one source answered a search successfully, the
\* first three sources are searched again with the three generic fallback
\* queries before the result is returned.
C25_RetriesWithFallbackQueries ==
    NothingFoundButAnswered =>
        /\ RetryPairs # <<>>
        /\ ret.searches = CrossProduct \o RetryPairs

\* What the code does: the searches issued are those of the cross-product,
\* never more.
OneRoundOnly == Collected_ => ret.searches = CrossProduct

(***************************************************************************)
(* Failures of single searches inside collect_data.                        *)
(***************************************************************************)
\* The posts of a sequence of pairs, pair by pair.
PostsOf(pairs, limit) ==
    Flatten([i \in 1..Len(pairs) |-> PairPosts(pairs[i], limit)])

\* The number of searches issued for a pair.
TimesSearched(pair) ==
    Cardinality({i \in 1..Len(ret.searches) : ret.searches[i] = pair})

\* C26 as stated: every pair of a valid source and a valid query is
\* searched exactly once, in source-major order, with at most
\* posts_per_query results taken per pair, and a pair whose search raises
\* contributes no post while the other pairs contribute theirs.
C26_FailedPairContributesNothing ==
    Collected_ =>
        /\ ret.searches = CrossProduct
        /\ \A i \in 1..Len(CrossProduct) : TimesSearched(CrossProduct[i]) = 1
        /\ ret.posts = IF SearchRaises(call.forum) THEN <<>>
                       ELSE PostsOf(CrossProduct, PostsPerQuery)

\* C26 amended: collect_data issues one search for every place of a valid
\* source and of a valid query in their lists, in source-major order, and
\* returns for each of them the first posts_per_query posts at most that
\* the search yielded before it ended or raised: a search that raises ends
\* that pair alone, and the posts it had yielded are kept.
C26_FailuresIsolatedPerPair ==
    Collected_ =>
        /\ ret.searches = CrossProduct
        /\ ret.posts = PostsOf(CrossProduct, PostsPerQuery)
        /\ Len(ret.posts) <= PostsPerQuery * Len(ret.searches)

\* Every search of the flaky forum raises, the one of askreddit after it
\* has yielded a post: both sources were searched and the post is kept.
C26_Witness ==
    /\ Collected_
    /\ call.forum = "flaky"
    /\ call.subreddits = << <<"AskReddit">>, <<"productivity">> >>
    /\ call.queries = << <<"focus", " ", "timer">> >>
    /\ ret.searches = << [subreddit |-> <<"askreddit">>,
                          query |-> <<"focus", " ", "timer">>],
                         [subreddit |-> <<"productivity">>,
                          query |-> <<"focus", " ", "timer">>] >>
    /\ ret.posts = <<PostData(TimerPost)>>

(***************************************************************************)
(* The command line in "all" platforms mode: main runs generate_ad for     *)
(* every platform of its list on one orchestrator and collects the results *)
(* in all_results, which it saves at the end.  The fields platforms (those *)
(* still to come), invoked (the platform argument of every invocation so   *)
(* far) and all_results of call are the locals of main; an exception that  *)
(* leaves generate_ad is caught by the handler around the loop.            *)
(***************************************************************************)
\* platforms = ["general", "instagram", "youtube", "video", "tiktok", "facebook"]
MainPlatforms ==
    <<"general", "instagram", "youtube", "video", "tiktok", "facebook">>

\* An aggregate that keeps every result under one name.
all_results_one_key(all_results, platform, platform_results) ==
    Put(all_results, "all", platform_results)

\* all_results[platform] = platform_results
AllResults(all_results, platform, platform_results) ==
    Put(all_results, platform, platform_results)

AllMode == "all_results" \in DOMAIN call

\* The runs of main.  The six runs of generate_ad multiply the choices of
\* each: Reddit is searched only where the backends always answer the same
\* and neither an intermediate file nor a runbook is written, and against
\* mixed backends neither is written either.
MainRuns ==
    {c \in [world : Worlds, generate_runbook : BOOLEAN,
            skip_reddit : BOOLEAN, save_intermediates : BOOLEAN] :
        /\ c.world = "mixed" => ~c.generate_runbook /\ ~c.save_intermediates
        /\ ~c.skip_reddit => /\ c.world # "mixed"
                             /\ ~c.generate_runbook
                             /\ ~c.save_intermediates}

InitAll ==
    /\ pc = "main"
    /\ call \in {[op |-> "generate_ad",
                  model_name |-> "",
                  agent |-> MakeAgent(p, ""),
                  keys |-> AllKeys,
                  product_info |-> SampleProduct,
                  save_intermediates |-> c.save_intermediates,
                  skip_reddit |-> c.skip_reddit,
                  platform |-> "all",
                  generate_runbook |-> c.generate_runbook,
                  disk |-> disk,
                  world |-> c.world,
                  platforms |-> MainPlatforms,
                  invoked |-> <<>>,
                  all_results |-> EmptyDict] :
                    p \in RunProviders, disk \in Disks, c \in MainRuns}
    /\ ret = [out |-> Return(PyNone), response |-> <<>>, calls |-> <<>>]
    /\ results = <<>>
    /\ locals = NoLocals
    /\ log = <<>>
    /\ faults = 0

\* for platform in platforms: orchestrator.generate_ad(..., platform=platform)
MainInvoke ==
    /\ pc = "main"
    /\ AllMode
    /\ call.platforms # <<>>
    /\ call' = [call EXCEPT !.platform = Head(call.platforms),
                            !.platforms = Tail(call.platforms),
                            !.invoked = Append(@, Head(call.platforms))]
    /\ results' = NewResults(call')
    /\ locals' = NoLocals
    /\ pc' = "Research"
    /\ UNCHANGED <<ret, log, faults>>

\* generate_ad has returned: its result is put into the aggregate and the
\* final script written to the file of the platform.
MainCollect ==
    /\ pc = "done"
    /\ AllMode
    /\ call' = [call EXCEPT !.all_results =
                    AllResults(@, call.platform, results)]
    /\ log' = log \o <<Event("Main", "write", "final_ad_script",
                             call.platform)>>
    /\ pc' = "main"
    /\ UNCHANGED <<ret, results, locals, faults>>

\* After the loop: json.dump(all_results, f)
MainSave ==
    /\ pc = "main"
    /\ AllMode
    /\ call.platforms = <<>>
    /\ log' = log \o <<Event("Main", "write", "output", "all")>>
    /\ pc' = "saved"
    /\ UNCHANGED <<call, ret, results, locals, faults>>

\* except Exception as e: the error is printed and main returns without
\* saving anything.
MainCaught ==
    /\ pc = "raised"
    /\ AllMode
    /\ pc' = "exited"
    /\ UNCHANGED <<call, ret, run>>

NextAll ==
    \/ MainInvoke
    \/ MainCollect
    \/ MainSave
    \/ MainCaught
    \/ Next

SpecAll == InitAll /\ [][NextAll]_vars

Elements(seq) == {seq[i] : i \in 1..Len(seq)}

HTTPException(status_code, detail) ==
    [class |-> "HTTPException", status_code |-> status_code, detail |-> detail]

DatabaseError ==
    [class |-> "APIError", status_code |-> 0,
     detail |-> <<"connection refused">>]

\* str(e)
ExcText(e) ==
    IF e.class = "HTTPException"
    THEN <<ToString(e.status_code), ": ">> \o e.detail
    ELSE e.detail

Raised(e, scripts) ==
    [raised |-> TRUE, exc |-> e, row |-> <<>>, scripts |-> scripts]

\* supabase.table('ad_scripts').update({"content": ...}).eq('id', ...)
UpdatedScripts(scripts, ad_script_id, content) ==
    [scripts EXCEPT ![ad_script_id].content = content]

\* The try block of update_ad_script_content.
UpdateBody(db, ad_script_id, current_user, content) ==
    IF db.state = "down" THEN Raised(DatabaseError, db.scripts)
    ELSE IF ad_script_id \notin DOMAIN db.scripts
    THEN Raised(HTTPException(404, <<"Ad script not found">>), db.scripts)
    ELSE IF \/ db.scripts[ad_script_id].campaign_id \notin DOMAIN db.campaigns
            \/ db.campaigns[db.scripts[ad_script_id].campaign_id]
                  # current_user
    THEN Raised(HTTPException(403,
                    <<"Not authorized to modify this ad script">>),
                db.scripts)
    ELSE IF db.state = "update_fails" THEN Raised(DatabaseError, db.scripts)
    ELSE IF db.state = "no_row"
    THEN Raised(HTTPException(500, <<"Failed to update ad script">>),
                db.scripts)
    ELSE [raised |-> FALSE, exc |-> DatabaseError,
          row |-> UpdatedScripts(db.scripts, ad_script_id,
                                 content)[ad_script_id],
          scripts |-> UpdatedScripts(db.scripts, ad_script_id, content)]

\* What the client receives and what the database holds afterwards: the
\* except clauses take every exception the try block raised, the
\* HTTPExceptions raised in it included.
update_ad_script_content(db, ad_script_id, current_user, content) ==
    LET body == UpdateBody(db, ad_script_id, current_user, content)
    IN  IF ~body.raised
        THEN [status_code |-> 200, detail |-> <<>>, row |-> body.row,
              scripts |-> body.scripts]
        ELSE IF body.exc.class = "ValueError"
        THEN [status_code |-> 400,
              detail |-> <<"Invalid UUID format: ">> \o ExcText(body.exc),
              row |-> <<>>, scripts |-> body.scripts]
        ELSE [status_code |-> 500,
              detail |-> <<"Error updating ad script: ">>
                         \o ExcText(body.exc),
              row |-> <<>>, scripts |-> body.scripts]

\* The stores the endpoint is run on: s1 is in a campaign of u1, s2 in one
\* of u2, s3 in a campaign that is gone, and s0 is no ad script.
StoredContents == {<<"Try", " ", "FocusFlow">>, <<>>}

NewContents == {<<"better">>, <<"Try", " ", "FocusFlow">>, <<>>}

ScriptIds == {"s0", "s1", "s2", "s3"}

Users == {"u1", "u2"}

DatabaseStates == {"up", "no_row", "update_fails", "down"}

Store(state, content) ==
    [state |-> state,
     scripts |-> [s1 |-> [id |-> "s1", campaign_id |-> "c1",
                          content |-> content],
                  s2 |-> [id |-> "s2", campaign_id |-> "c2",
                          content |-> content],
                  s3 |-> [id |-> "s3", campaign_id |-> "c9",
                          content |-> content]],
     campaigns |-> [c1 |-> "u1", c2 |-> "u2"]]

InitUpdate ==
    /\ pc = "start"
    /\ call \in {[op |-> "update_ad_script_content",
                  db |-> Store(state, stored),
                  ad_script_id |-> id,
                  current_user |-> user,
                  content |-> content] :
                    state \in DatabaseStates, stored \in StoredContents,
                    id \in ScriptIds, user \in Users,
                    content \in NewContents}
    /\ ret = [status_code |-> 0, detail |-> <<>>, row |-> <<>>,
              scripts |-> call.db.scripts]
    /\ NoRun

UpdateAdScriptContent ==
    /\ pc = "start"
    /\ call.op = "update_ad_script_content"
    /\ ret' = update_ad_script_content(call.db, call.ad_script_id,
                                       call.current_user, call.content)
    /\ pc' = "done"
    /\ UNCHANGED <<call, run>>

NextUpdate == UpdateAdScriptContent

SpecUpdate == InitUpdate /\ [][NextUpdate]_vars

Answered == pc = "done" /\ call.op = "update_ad_script_content"

NoSuchScript == call.ad_script_id \notin DOMAIN call.db.scripts

OthersScript ==
    /\ ~NoSuchScript
    /\ call.db.scripts[call.ad_script_id].campaign_id
          \in DOMAIN call.db.campaigns
    /\ call.db.campaigns[call.db.scripts[call.ad_script_id].campaign_id]
          # call.current_user

\* C22: an update of an ad script id that does not exist is answered with
\* 404, an update of a script whose campaign belongs to another user with
\* 403, and in both cases the stored scripts are what they were.
C22_DocumentedErrors ==
    Answered /\ call.db.state # "down" =>
        /\ NoSuchScript => ret.status_code = 404
        /\ OthersScript => ret.status_code = 403
        /\ NoSuchScript \/ OthersScript => ret.scripts = call.db.scripts

\* What the endpoint does in the two cases: the client is answered with
\* 500, the detail quoting the error that was meant, and nothing is
\* changed.
ErrorsRewrapped ==
    Answered /\ call.db.state # "down" =>
        /\ NoSuchScript =>
              /\ ret.status_code = 500
              /\ ret.detail = <<"Error updating ad script: ", "404", ": ",
                                "Ad script not found">>
        /\ OthersScript =>
              /\ ret.status_code = 500
              /\ ret.detail = <<"Error updating ad script: ", "403", ": ",
                                "Not authorized to modify this ad script">>
        /\ NoSuchScript \/ OthersScript => ret.scripts = call.db.scripts

\* The owner's update is stored and answered with the updated row.
OwnerUpdates ==
    Answered /\ call.db.state = "up" /\ ~NoSuchScript /\ ~OthersScript
             /\ call.db.scripts[call.ad_script_id].campaign_id
                   \in DOMAIN call.db.campaigns =>
        /\ ret.status_code = 200
        /\ ret.scripts[call.ad_script_id].content = call.content

=============================================================================
